---- MODULE Spec2Model ----
(***************************************************************************)
(* Logic simulator: the parser (final/parse.py) driven by a token source,  *)
(* the launcher (Logsim/logsim.py), the graphical driver (final/gui.py)    *)
(* and the name table (Logsim/names.py).                                   *)
(*                                                                         *)
(* devices.py, network.py and monitors.py are not part of the sources at   *)
(* hand; the operators that stand for them follow sections 4.3 to 4.5 of   *)
(* the specification and say so in their comments.                         *)
(***************************************************************************)
EXTENDS Integers, Sequences, FiniteSets, TLC

(***************************************************************************)
(* Bounds of the model.                                                    *)
(***************************************************************************)
\* characters of the definition file the scanner reads
MaxFile == 5
\* errors one parse may count before the model stops following it
MaxErrors == 2
\* user-defined names that occur in a definition file
NumNames == 1
\* output identifiers one MONITOR statement may list
MaxOutputs == 1
\* largest value of the cycles spin control
MaxSpin == 2
\* cycles simulated since the last run
MaxCycles == 3
\* strings stored in the name table
MaxTable == 2
\* length of a list passed to lookup
MaxList == 2
\* error codes handed out by the name table
MaxCodes == 2
\* stray symbols in the device section of a file
MaxStrays == 3
\* symbols of any kind after the start of a valid file
MaxTail == 1
\* words on the command line
MaxArgs == 2

(***************************************************************************)
(* scanner.py: symbol types, range(11).                                    *)
(***************************************************************************)
COMMA == 0
SEMICOLON == 1
GREATER == 2
BRACK_OPEN == 3
BRACK_CLOSE == 4
NUMBER == 5
KEYWORD == 6
NAME == 7
DOT == 8
COLON == 9
EOF == 10

(***************************************************************************)
(* scanner.py: keyword IDs, names.lookup(keywords_list) on a fresh table.  *)
(***************************************************************************)
CLOCK_ID == 0
SWITCH_ID == 1
AND_ID == 2
NAND_ID == 3
OR_ID == 4
NOR_ID == 5
DTYPE_ID == 6
XOR_ID == 7
MONITOR_ID == 8
Q_ID == 9
QBAR_ID == 10
CLK_ID == 11
DATA_ID == 12
SET_ID == 13
CLEAR_ID == 14
DEVICES_ID == 15
CONNECTIONS_ID == 16
RC_ID == 17

\* Python None in an integer field (Symbol.id, a port id, a qualifier)
NoneId == -1
\* type of the value None that parse_network stores in self.symbol
NoType == -1

\* the name table gives user names the IDs after the 18 keywords; the
\* first of them stands for the string "I1", the input port of a gate
I1_ID == RC_ID + 1
NameIds == I1_ID .. (I1_ID + NumNames - 1)

Symbol(type, id) == [type |-> type, id |-> id]
NoSymbol == Symbol(NoType, NoneId)

_device_type_keywords_list ==
    {CLOCK_ID, SWITCH_ID, AND_ID, NAND_ID, OR_ID, NOR_ID, DTYPE_ID, XOR_ID, RC_ID}
output_identifier_keywords_list == {Q_ID, QBAR_ID}
input_identifier_keywords_list == {CLK_ID, DATA_ID, SET_ID, CLEAR_ID}

\* the keywords and numbers a free source is bounded to: the three section
\* keywords, two of the nine device types (a switch and a gate), one of the
\* two output ports, one of the four input ports, and the numbers 0 and 1
KeywordAlphabet == {DEVICES_ID, CONNECTIONS_ID, MONITOR_ID, SWITCH_ID, NAND_ID,
                    Q_ID, DATA_ID}
NumberAlphabet == {0, 1}

\* the symbols of the ten token kinds that come before the end of the file
Alphabet ==
    {Symbol(t, NoneId) : t \in {COMMA, SEMICOLON, GREATER, BRACK_OPEN,
                                BRACK_CLOSE, DOT, COLON}}
    \cup {Symbol(NUMBER, n) : n \in NumberAlphabet}
    \cup {Symbol(KEYWORD, k) : k \in KeywordAlphabet}
    \cup {Symbol(NAME, n) : n \in NameIds}

VARIABLES
    \* ---- parser (parse.py) and launcher (logsim.py)
    pc,                \* position in parse_network / main
    stack,             \* return positions of the rule functions in progress
    symbol,            \* Parser.symbol
    source,            \* the scanner of the parser: the symbols it will
                       \* still return, whether it has met an invalid
                       \* character and, for a scanner given its list of
                       \* symbols, that list and the errors displayed
    error_count,       \* Parser.error_count
    suppressed_errors, \* Parser.suppressed_errors
    last_err,          \* kind of the error _handle_error counted last
    edi_shown,         \* times EXPECTED_DEVICE_INSTANTIATION was displayed
    local,             \* local variables of the rule functions in progress
    result,            \* value returned by parse_network
    ui_started,        \* main started the command-line or graphical interface
    cli,               \* the command line, main's position and the exit status
    \* ---- devices, network, monitors
    devices,           \* Devices.devices_list
    connections,       \* input slots that hold an output reference
    monitors_dictionary, \* Monitors.monitors_dictionary
    calls,             \* calls made to the devices/network/monitors objects
    outputs,           \* current level of the output of every device
    \* ---- graphical driver (gui.py)
    gui_pc,            \* position in the event handler in progress
    spin,              \* value of the cycles spin control
    time_steps,        \* Gui.time_steps
    current_steps,     \* Gui.current_steps
    loop_i,            \* loop variable i of the handler in progress
    osc_here,          \* local osc_here of the handler in progress
    canvas,            \* canvas.oscillating and canvas.not_connected
    values,            \* Gui.values
    trace_names,       \* Gui.trace_names
    shared,            \* the monitor whose own list each list of Gui.values is
    sig_mons,          \* Gui.sig_mons
    sig_not_mons,      \* Gui.sig_not_mons
    history,           \* what the driver has done since the last run
    \* ---- name table (names.py)
    names,             \* Names.names
    error_code_count,  \* Names.error_code_count
    last_call,         \* the call made last, its argument and its result
    \* ---- scanner (scanner.py)
    scan_pc,           \* position in get_symbol and the functions it calls
    scanner,           \* Scanner.current_char, hashes, line_num, char_num
    obj_file,          \* Scanner.obj_file: the characters read(1) has given
    scan_local,        \* locals of get_symbol, _get_name, _get_number
    tokens             \* the symbols get_symbol has returned

parserVars == <<pc, stack, symbol, source, error_count, suppressed_errors,
                last_err, edi_shown, local, result, ui_started, cli>>
netVars == <<devices, connections, monitors_dictionary, calls>>
guiVars == <<outputs, gui_pc, spin, time_steps, current_steps, loop_i,
             osc_here, canvas, values, trace_names, shared, sig_mons,
             sig_not_mons,
             history>>
namesVars == <<names, error_code_count, last_call>>
scannerVars == <<scan_pc, scanner, obj_file, scan_local, tokens>>
vars == <<parserVars, netVars, guiVars, namesVars, scannerVars>>

(***************************************************************************)
(* Devices, Network, Monitors: modelled from sections 4.3, 4.4 and 4.5 of  *)
(* the specification (their source files are not available).               *)
(***************************************************************************)
NoDevice == [kind |-> "NONE", qualifier |-> NoneId]

\* names of the gate inputs I2, I3, ... ; only I1 can occur in a file here
InputId(k) == IF k = 1 THEN I1_ID ELSE 100 + k

GateKinds == {"AND", "NAND", "OR", "NOR"}

\* section 4.3: input ports a device of this kind is built with
InputPorts(d) ==
    IF d.kind \in GateKinds THEN {InputId(k) : k \in 1..d.qualifier}
    ELSE IF d.kind = "XOR" THEN {InputId(1), InputId(2)}
    ELSE IF d.kind = "DTYPE" THEN {DATA_ID, CLK_ID, SET_ID, CLEAR_ID}
    ELSE {}

\* section 4.3: output ports; a single output has the absent port id
OutputPorts(d) ==
    IF d.kind = "NONE" THEN {}
    ELSE IF d.kind = "DTYPE" THEN {Q_ID, QBAR_ID}
    ELSE {NoneId}

get_device(devs, id) == IF id \in DOMAIN devs THEN devs[id] ELSE NoDevice

\* section 4.3: the error make_device answers, "NO_ERROR" when it builds
make_device_error(devs, id, kind, qualifier) ==
    IF get_device(devs, id) # NoDevice THEN "DEVICE_PRESENT"
    ELSE IF kind \in GateKinds THEN
        IF qualifier = NoneId THEN "NO_QUALIFIER"
        ELSE IF qualifier \in 1..16 THEN "NO_ERROR" ELSE "INVALID_QUALIFIER"
    ELSE IF kind = "SWITCH" THEN
        IF qualifier = NoneId THEN "NO_QUALIFIER"
        ELSE IF qualifier \in {0, 1} THEN "NO_ERROR" ELSE "INVALID_QUALIFIER"
    ELSE IF kind \in {"CLOCK", "RC"} THEN
        IF qualifier = NoneId THEN "NO_QUALIFIER"
        ELSE IF qualifier > 0 THEN "NO_ERROR" ELSE "INVALID_QUALIFIER"
    ELSE IF kind \in {"XOR", "DTYPE"} THEN
        IF qualifier # NoneId THEN "QUALIFIER_PRESENT" ELSE "NO_ERROR"
    ELSE "BAD_DEVICE"

\* section 4.3: the device list after make_device
make_device(devs, id, kind, qualifier) ==
    IF make_device_error(devs, id, kind, qualifier) = "NO_ERROR"
    THEN [devs EXCEPT ![id] = [kind |-> kind, qualifier |-> qualifier]]
    ELSE devs

Slot(in_id, in_port) == [dev |-> in_id, port |-> in_port]
Ref(out_id, out_port) == [dev |-> out_id, port |-> out_port]

\* the input slots of all devices
AllSlots(devs) ==
    UNION {{Slot(i, p) : p \in InputPorts(devs[i])} : i \in DOMAIN devs}

\* section 4.4: the error connect answers, "NO_ERROR" when it connects
make_connection_error(devs, conns, out_id, out_port, in_id, in_port) ==
    LET od == get_device(devs, out_id)
        id == get_device(devs, in_id)
    IN  IF od = NoDevice \/ id = NoDevice THEN "DEVICE_ABSENT"
        ELSE IF out_port \in OutputPorts(od) THEN
            IF in_port \in InputPorts(id) THEN
                IF \E c \in conns : c.slot = Slot(in_id, in_port)
                THEN "INPUT_CONNECTED" ELSE "NO_ERROR"
            ELSE IF in_port \in OutputPorts(id) THEN "OUTPUT_TO_OUTPUT"
            ELSE "INPUT_PORT_ABSENT"
        ELSE IF out_port \in InputPorts(od) THEN
            IF in_port \in InputPorts(id) THEN "INPUT_TO_INPUT"
            ELSE "INPUT_PORT_ABSENT"
        ELSE "OUTPUT_PORT_ABSENT"

\* section 4.4: the input slot stores the reference to the upstream output
make_connection(devs, conns, out_id, out_port, in_id, in_port) ==
    IF make_connection_error(devs, conns, out_id, out_port, in_id, in_port)
       = "NO_ERROR"
    THEN conns \cup {[slot |-> Slot(in_id, in_port), ref |-> Ref(out_id, out_port)]}
    ELSE conns

\* section 4.4: every input slot of every device is connected
check_network(devs, conns) ==
    \A s \in AllSlots(devs) : \E c \in conns : c.slot = s

\* section 4.5: the error make_monitor answers
make_monitor_error(devs, mons, device_id, output_id) ==
    IF get_device(devs, device_id) = NoDevice THEN "DEVICE_ABSENT"
    ELSE IF output_id \notin OutputPorts(get_device(devs, device_id))
    THEN "NOT_OUTPUT"
    ELSE IF Ref(device_id, output_id) \in DOMAIN mons THEN "MONITOR_PRESENT"
    ELSE "NO_ERROR"

\* section 4.5: a new monitor starts with an empty sequence
make_monitor(devs, mons, device_id, output_id) ==
    IF make_monitor_error(devs, mons, device_id, output_id) = "NO_ERROR"
    THEN [k \in DOMAIN mons \cup {Ref(device_id, output_id)} |->
            IF k \in DOMAIN mons THEN mons[k] ELSE <<>>]
    ELSE mons

\* section 4.5: the monitor is dropped with its sequence
remove_monitor(mons, device_id, output_id) ==
    [k \in DOMAIN mons \ {Ref(device_id, output_id)} |-> mons[k]]

(***************************************************************************)
(* Parser: error handling and token access (parse.py).                     *)
(***************************************************************************)
Range(q) == {q[i] : i \in DOMAIN q}

EndOfFile == Symbol(EOF, NoneId)

\* Scanner.get_symbol on a file the parser knows nothing of: a symbol, or
\* the end of the file, or, at an invalid character, one of two things.
\* Behind white space or a comment _next_valid_char ends the process
\* (scanner.py 146-150); anywhere else no branch of get_symbol takes the
\* character, and this call and every later one return the symbol that has
\* no type (scanner.py 152-191)
any_get_symbol ==
    IF source.mode = "invalid"
    THEN /\ symbol' = NoSymbol
         /\ source' = source
    ELSE \/ /\ symbol' \in Alphabet \cup {EndOfFile}
            /\ source' = source
         \/ /\ symbol' = NoSymbol
            /\ source' = [source EXCEPT !.mode = "invalid"]
         \/ /\ symbol' = symbol
            /\ source' = [source EXCEPT !.mode = "exited"]

\* the placeholder scanner of test_parse.py: the next symbol of the list,
\* EOF when the list is used up; a free source is the scanner on any file
new_get_symbol ==
    IF source.symbols # <<>>
    THEN /\ symbol' = Head(source.symbols)
         /\ source' = [source EXCEPT !.symbols = Tail(@), !.count = @ + 1]
    ELSE IF source.free
    THEN any_get_symbol
    ELSE /\ symbol' = EndOfFile
         /\ source' = [source EXCEPT !.count = @ + 1]

\* the error fields of the parser, as one record; errs is the list that the
\* display_error_line of test_parse.py appends to
ErrorState == [error_count |-> error_count, last_err |-> last_err,
               suppressed_errors |-> suppressed_errors,
               edi_shown |-> edi_shown, errs |-> source.errs]

\* _handle_error that leaves a suppressed error out of the count
_handle_error_counts_displayed(st, err) ==
    LET display == err \notin Range(st.suppressed_errors)
        edi == display /\ err = "EXPECTED_DEVICE_INSTANTIATION"
    IN  [error_count |-> IF display THEN st.error_count + 1
                         ELSE st.error_count,
         last_err |-> err,
         suppressed_errors |->
            IF edi THEN Append(st.suppressed_errors, err)
            ELSE st.suppressed_errors,
         edi_shown |-> IF edi THEN st.edi_shown + 1 ELSE st.edi_shown,
         errs |-> IF display /\ ~source.free
                  THEN Append(st.errs, [symbol |-> symbol, err |-> err])
                  ELSE st.errs]

\* _handle_error without its skip: count, display unless suppressed
_handle_error(st, err) ==
    LET display == err \notin Range(st.suppressed_errors)
        edi == display /\ err = "EXPECTED_DEVICE_INSTANTIATION"
    IN  [error_count |-> st.error_count + 1,
         last_err |-> err,
         suppressed_errors |->
            IF edi THEN Append(st.suppressed_errors, err)
            ELSE st.suppressed_errors,
         edi_shown |-> IF edi THEN st.edi_shown + 1 ELSE st.edi_shown,
         errs |-> IF display /\ ~source.free
                  THEN Append(st.errs, [symbol |-> symbol, err |-> err])
                  ELSE st.errs]

SetErrorState(st) ==
    /\ source.free => st.error_count <= MaxErrors
    /\ error_count' = st.error_count
    /\ last_err' = st.last_err
    /\ suppressed_errors' = st.suppressed_errors
    /\ edi_shown' = st.edi_shown
    /\ source' = [source EXCEPT !.errs = st.errs]

\* one call of _handle_error; the symbol is left where it is
Error(err) ==
    /\ SetErrorState(_handle_error(ErrorState, err))
    /\ UNCHANGED symbol

\* two calls of _handle_error in a row
Error2(err1, err2) ==
    /\ SetErrorState(_handle_error(_handle_error(ErrorState, err1), err2))
    /\ UNCHANGED symbol

\* no error, no symbol read
Quiet == UNCHANGED <<symbol, source, error_count, last_err,
                     suppressed_errors, edi_shown>>

\* _get_next_symbol that asks the scanner whatever the current symbol is
_get_next_symbol_reads_on ==
    /\ new_get_symbol
    /\ UNCHANGED <<error_count, last_err, suppressed_errors, edi_shown>>

\* _get_next_symbol: at EOF count UNEXPECTED_EOF and stay, else read on
_get_next_symbol ==
    IF symbol # NoSymbol /\ symbol.type = EOF
    THEN Error("UNEXPECTED_EOF")
    ELSE /\ new_get_symbol
         /\ UNCHANGED <<error_count, last_err, suppressed_errors, edi_shown>>

_symbol_is_keyword(ids) == symbol.type = KEYWORD /\ symbol.id \in ids

(***************************************************************************)
(* Parser: control.  The rule functions do not recurse, so their local     *)
(* variables live in one record and their return positions on a stack.     *)
(***************************************************************************)
RetNone == [none |-> TRUE, dev |-> NoneId, port |-> NoneId]
RetVal(d, p) == [none |-> FALSE, dev |-> d, port |-> p]
\* _initialise_device returns True or False: neither is None
RetBool == RetVal(NoneId, NoneId)

NoLocal == [rule |-> "none", device_type |-> NoneId, device_id |-> NoneId,
            qualifier |-> NoneId, output_conn |-> RetNone,
            input_conn |-> RetNone, returns |-> <<>>, skip_to |-> NoneId]

Push(label, stk) == <<label>> \o stk

\* go on at p, unless get_symbol has just ended the process
Ctl(p, stk, l) ==
    IF source'.mode = "exited"
    THEN /\ pc' = "scanner_exit"
         /\ UNCHANGED <<stack, local>>
    ELSE /\ pc' = p
         /\ stack' = stk
         /\ local' = l

Goto(p) == Ctl(p, stack, local)

\* _skip_to_symbol(stop), then go on at label
SkipThen(stop, label, stk, l) ==
    Ctl("skip", Push(label, stk), [l EXCEPT !.skip_to = stop])

\* a rule function returns r to the position on top of the stack
Return(l0, r) ==
    LET top == Head(stack)
        rest == Tail(stack)
        l == [l0 EXCEPT !.device_id = NoneId, !.qualifier = NoneId]
        \* _rule_one_or_more keeps the returned values; only _rule_monitor
        \* reads them, the list of a device instantiation is dropped
        kept == IF l.rule = "output_identifier"
                THEN [l EXCEPT !.returns = Append(@, r)] ELSE l
    IN  CASE top = "one_or_more_first" ->
                Ctl("one_or_more_loop", rest, kept)
          [] top = "one_or_more_item" ->
                IF r.none
                THEN SkipThen(SEMICOLON, "one_or_more_loop", rest, kept)
                ELSE Ctl("one_or_more_loop", rest, kept)
          [] top = "connection_output" ->
                IF r.none
                THEN SkipThen(SEMICOLON, "connection_end", rest, l)
                ELSE Ctl("connection_greater", rest,
                         [l EXCEPT !.output_conn = r])
          [] top = "connection_input" ->
                IF r.none
                THEN SkipThen(SEMICOLON, "connection_end", rest, l)
                ELSE Ctl("make_connection", rest,
                         [l EXCEPT !.input_conn = r])

NetSame == UNCHANGED netVars
Rest == UNCHANGED <<result, ui_started, cli, guiVars, namesVars,
                   scannerVars>>

(***************************************************************************)
(* parse_network, device section.                                          *)
(***************************************************************************)
\* lines 170-174: reset the count, read the first symbol
ParseStart ==
    /\ pc = "start"
    /\ error_count' = 0
    /\ UNCHANGED <<last_err, suppressed_errors, edi_shown>>
    /\ new_get_symbol
    /\ Goto("expect_devices")
    /\ NetSame /\ Rest

\* line 175: _expect_keyword(DEVICES_ID)
ExpectDevices ==
    /\ pc = "expect_devices"
    /\ IF _symbol_is_keyword({DEVICES_ID})
       THEN _get_next_symbol
       ELSE Error("EXPECTED_KEYWORD")
    /\ Goto("expect_colon1")
    /\ NetSame /\ Rest

\* line 176: _expect_symbol(COLON)
ExpectColon1 ==
    /\ pc = "expect_colon1"
    /\ IF symbol.type = COLON
       THEN _get_next_symbol
       ELSE Error("EXPECTED_SYMBOL")
    /\ Goto("device_loop")
    /\ NetSame /\ Rest

\* lines 178-188: one turn of the device loop, up to the first symbol read
DeviceLoop ==
    /\ pc = "device_loop"
    /\ IF symbol.type = EOF
       THEN /\ Error("UNEXPECTED_EOF")
            /\ Goto("finish")
       ELSE IF _symbol_is_keyword(_device_type_keywords_list)
       THEN \* _rule_device_instantiation, _rule_one_or_more: first item
            /\ _get_next_symbol
            /\ Ctl("device_name_init",
                   Push("one_or_more_first", Push("device_loop", stack)),
                   [local EXCEPT !.rule = "device_name_init",
                                 !.device_type = symbol.id,
                                 !.returns = <<>>])
       ELSE IF _symbol_is_keyword({CONNECTIONS_ID})
       THEN /\ Quiet
            /\ Goto("expect_connections")
       ELSE /\ Error("EXPECTED_DEVICE_INSTANTIATION")
            /\ SkipThen(SEMICOLON, "device_loop_next", stack, local)
    /\ NetSame /\ Rest

\* lines 189-190: step over the stopping symbol
DeviceLoopNext ==
    /\ pc = "device_loop_next"
    /\ IF symbol.type # EOF THEN _get_next_symbol ELSE Quiet
    /\ Goto("device_loop")
    /\ NetSame /\ Rest

\* _skip_to_symbol whose loop does not test for EOF
SkipToSymbol_past_eof ==
    /\ pc = "skip"
    /\ IF symbol.type # local.skip_to
       THEN /\ _get_next_symbol
            /\ Goto("skip")
       ELSE /\ Quiet
            /\ Ctl(Head(stack), Tail(stack),
                   [local EXCEPT !.skip_to = NoneId])
    /\ NetSame /\ Rest

\* _skip_to_symbol: one turn of its loop, or its end
SkipToSymbol ==
    /\ pc = "skip"
    /\ IF symbol.type # local.skip_to /\ symbol.type # EOF
       THEN /\ _get_next_symbol
            /\ Goto("skip")
       ELSE /\ Quiet
            /\ Ctl(Head(stack), Tail(stack),
                   [local EXCEPT !.skip_to = NoneId])
    /\ NetSame /\ Rest

\* _rule_one_or_more, lines 348-364: one turn of its loop
OneOrMoreLoop ==
    /\ pc = "one_or_more_loop"
    /\ IF symbol.type = COMMA
       THEN /\ (source.free /\ local.rule = "output_identifier")
                => Len(local.returns) < MaxOutputs
            /\ _get_next_symbol
            /\ Ctl(local.rule, Push("one_or_more_item", stack), local)
       ELSE IF symbol.type = SEMICOLON
       THEN /\ _get_next_symbol
            /\ Ctl(Head(stack), Tail(stack),
                   [local EXCEPT !.rule = "none", !.device_type = NoneId])
       ELSE IF symbol.type = EOF
       THEN /\ Error("UNEXPECTED_EOF")
            /\ Ctl(Head(stack), Tail(stack),
                   [local EXCEPT !.rule = "none", !.device_type = NoneId])
       ELSE /\ Error("EXPECTED_SYMBOL")
            /\ SkipThen(SEMICOLON, "one_or_more_loop", stack, local)
    /\ NetSame /\ Rest

\* _rule_device_name_init with _rule_device_identifier, lines 298-299, 370-373
DeviceNameInit ==
    /\ pc = "device_name_init"
    /\ IF symbol.type = NAME
       THEN /\ _get_next_symbol
            /\ Ctl("dni_qualifier", stack,
                   [local EXCEPT !.device_id = symbol.id,
                                 !.qualifier = NoneId])
       ELSE /\ Error("EXPECTED_SYMBOL")
            /\ Return(local, RetNone)
    /\ NetSame /\ Rest

\* lines 300-302: the optional bracket
DniQualifier ==
    /\ pc = "dni_qualifier"
    /\ IF symbol.type = BRACK_OPEN
       THEN /\ _get_next_symbol
            /\ Goto("dni_number")
       ELSE /\ Quiet
            /\ Goto("initialise_device")
    /\ NetSame /\ Rest

\* lines 303-304: qualifier = self.symbol.id, _expect_symbol(NUMBER)
DniNumber ==
    /\ pc = "dni_number"
    /\ IF symbol.type = NUMBER
       THEN /\ _get_next_symbol
            /\ Ctl("dni_close", stack,
                   [local EXCEPT !.qualifier = symbol.id])
       ELSE /\ Error("EXPECTED_SYMBOL")
            /\ Ctl("initialise_device", stack,
                   [local EXCEPT !.qualifier = symbol.id])
    /\ NetSame /\ Rest

\* line 305: _expect_symbol(BRACK_CLOSE)
DniClose ==
    /\ pc = "dni_close"
    /\ IF symbol.type = BRACK_CLOSE
       THEN _get_next_symbol
       ELSE Error("EXPECTED_SYMBOL")
    /\ Goto("initialise_device")
    /\ NetSame /\ Rest

\* the dictionary device_types of _initialise_device
device_types(id) ==
    CASE id = AND_ID -> "AND"
      [] id = OR_ID -> "OR"
      [] id = NAND_ID -> "NAND"
      [] id = NOR_ID -> "NOR"
      [] id = XOR_ID -> "XOR"
      [] id = CLOCK_ID -> "CLOCK"
      [] id = SWITCH_ID -> "SWITCH"
      [] id = DTYPE_ID -> "DTYPE"
      [] id = RC_ID -> "RC"

Count(c, field, err) ==
    [c EXCEPT ![field] = @ + 1,
              !.failed = IF err = "NO_ERROR" THEN @ ELSE @ + 1]

\* _initialise_device, lines 129-162
_initialise_device ==
    /\ pc = "initialise_device"
    /\ IF error_count > 0
       THEN /\ Quiet
            /\ NetSame
            /\ Return(local, RetBool)
       ELSE LET kind == device_types(local.device_type)
                err == make_device_error(devices, local.device_id, kind,
                                         local.qualifier)
            IN  /\ devices' = make_device(devices, local.device_id, kind,
                                          local.qualifier)
                /\ calls' = Count(calls, "make_device", err)
                /\ UNCHANGED <<connections, monitors_dictionary>>
                /\ IF err = "NO_ERROR"
                   THEN /\ Quiet
                        /\ Return(local, RetBool)
                   ELSE /\ Error(err)
                        /\ Return(local, RetNone)
    /\ Rest

(***************************************************************************)
(* parse_network, connections section and MONITOR statement.               *)
(***************************************************************************)
\* line 200: _expect_keyword(CONNECTIONS_ID), the keyword is there
ExpectConnections ==
    /\ pc = "expect_connections"
    /\ _get_next_symbol
    /\ Goto("expect_colon2")
    /\ NetSame /\ Rest

\* line 201: _expect_symbol(COLON)
ExpectColon2 ==
    /\ pc = "expect_colon2"
    /\ IF symbol.type = COLON
       THEN _get_next_symbol
       ELSE Error("EXPECTED_SYMBOL")
    /\ Goto("connection_loop")
    /\ NetSame /\ Rest

\* lines 203-212: one turn of the connection loop
ConnectionLoop ==
    /\ pc = "connection_loop"
    /\ IF _symbol_is_keyword({MONITOR_ID})
       THEN \* _rule_monitor: _expect_keyword(MONITOR_ID), _rule_one_or_more
            /\ _get_next_symbol
            /\ Ctl("output_identifier",
                   Push("one_or_more_first", Push("monitor_outputs", stack)),
                   [local EXCEPT !.rule = "output_identifier",
                                 !.returns = <<>>])
       ELSE IF symbol.type = EOF
       THEN /\ Quiet
            /\ Goto("check_eof")
       ELSE IF symbol.type = NAME
       THEN \* _rule_connection: output_conn = _rule_output_identifier()
            /\ Quiet
            /\ Ctl("output_identifier", Push("connection_output", stack),
                   local)
       ELSE /\ Error("EXPECTED_CONNECTION")
            /\ SkipThen(SEMICOLON, "connection_loop_next", stack, local)
    /\ NetSame /\ Rest

\* lines 213-214: step over the stopping symbol
ConnectionLoopNext ==
    /\ pc = "connection_loop_next"
    /\ IF symbol.type # EOF THEN _get_next_symbol ELSE Quiet
    /\ Goto("connection_loop")
    /\ NetSame /\ Rest

\* the output identifier that reports a missing name once
OutputIdentifier_one_error ==
    /\ pc = "output_identifier"
    /\ IF symbol.type = NAME
       THEN /\ _get_next_symbol
            /\ Ctl("oi_device", stack,
                   [local EXCEPT !.device_id = symbol.id])
       ELSE /\ Error("EXPECTED_SYMBOL")
            /\ Return(local, RetNone)
    /\ NetSame /\ Rest

\* _rule_output_identifier, lines 377-381, with _rule_device_identifier
OutputIdentifier ==
    /\ pc = "output_identifier"
    /\ IF symbol.type = NAME
       THEN /\ _get_next_symbol
            /\ Ctl("oi_device", stack,
                   [local EXCEPT !.device_id = symbol.id])
       ELSE /\ Error2("EXPECTED_SYMBOL", "DEVICE_ABSENT")
            /\ Return(local, RetNone)
    /\ NetSame /\ Rest

\* the output identifier that looks its device up after an error too
OiDevice_unguarded ==
    /\ pc = "oi_device"
    /\ IF get_device(devices, local.device_id) = NoDevice
       THEN /\ Error("DEVICE_ABSENT")
            /\ Return(local, RetNone)
       ELSE IF symbol.type = DOT
       THEN /\ _get_next_symbol
            /\ Goto("oi_port")
       ELSE /\ Quiet
            /\ Return(local, RetVal(local.device_id, NoneId))
    /\ NetSame /\ Rest

\* lines 382-388 and 401: is the device there, is a port given
OiDevice ==
    /\ pc = "oi_device"
    /\ IF get_device(devices, local.device_id) = NoDevice /\ error_count = 0
       THEN /\ Error("DEVICE_ABSENT")
            /\ Return(local, RetNone)
       ELSE IF symbol.type = DOT
       THEN /\ _get_next_symbol
            /\ Goto("oi_port")
       ELSE /\ Quiet
            /\ Return(local, RetVal(local.device_id, NoneId))
    /\ NetSame /\ Rest

\* lines 389-399: the port after the dot
OiPort ==
    /\ pc = "oi_port"
    /\ IF _symbol_is_keyword(output_identifier_keywords_list)
       THEN /\ _get_next_symbol
            /\ Return(local, RetVal(local.device_id,
                        IF symbol.id = Q_ID THEN Q_ID ELSE QBAR_ID))
       ELSE /\ Error("EXPECTED_KEYWORD")
            /\ Return(local, RetNone)
    /\ NetSame /\ Rest

\* line 315: _expect_symbol(GREATER, SEMICOLON)
ConnectionGreater ==
    /\ pc = "connection_greater"
    /\ IF symbol.type = GREATER
       THEN /\ _get_next_symbol
            /\ Ctl("input_identifier", Push("connection_input", stack),
                   local)
       ELSE /\ Error("EXPECTED_SYMBOL")
            /\ SkipThen(SEMICOLON, "connection_end", stack, local)
    /\ NetSame /\ Rest

\* _rule_input_identifier, lines 405-409
InputIdentifier ==
    /\ pc = "input_identifier"
    /\ IF symbol.type = NAME
       THEN /\ _get_next_symbol
            /\ Ctl("ii_device", stack,
                   [local EXCEPT !.device_id = symbol.id])
       ELSE /\ Error2("EXPECTED_SYMBOL", "DEVICE_ABSENT")
            /\ Return(local, RetNone)
    /\ NetSame /\ Rest

\* lines 410-422: is the device there, then _expect_symbol(DOT, SEMICOLON)
IiDevice ==
    /\ pc = "ii_device"
    /\ IF get_device(devices, local.device_id) = NoDevice /\ error_count = 0
       THEN /\ Error("DEVICE_ABSENT")
            /\ Return(local, RetNone)
       ELSE IF symbol.type = DOT
       THEN /\ _get_next_symbol
            /\ Goto("ii_port")
       ELSE /\ Error("EXPECTED_SYMBOL")
            /\ SkipThen(SEMICOLON, "ii_fail", stack, local)
    /\ NetSame /\ Rest

\* line 435 after the skip: return None
IiFail ==
    /\ pc = "ii_fail"
    /\ Quiet
    /\ Return(local, RetNone)
    /\ NetSame /\ Rest

\* the dictionary id_translation: scanner port keyword to device port
id_translation(id) ==
    CASE id = CLK_ID -> CLK_ID
      [] id = DATA_ID -> DATA_ID
      [] id = SET_ID -> SET_ID
      [] id = CLEAR_ID -> CLEAR_ID

\* lines 423-434: the port after the dot
IiPort ==
    /\ pc = "ii_port"
    /\ IF symbol.type = NAME
       THEN /\ _get_next_symbol
            /\ Return(local, RetVal(local.device_id, symbol.id))
       ELSE IF _symbol_is_keyword(input_identifier_keywords_list)
       THEN /\ _get_next_symbol
            /\ Return(local, RetVal(local.device_id, id_translation(symbol.id)))
       ELSE /\ Error("EXPECTED_NAME_PORT_INPUT")
            /\ Return(local, RetNone)
    /\ NetSame /\ Rest

\* _make_connection without the test of error_count
_make_connection_unguarded ==
    /\ pc = "make_connection"
    /\ LET o == local.output_conn
           i == local.input_conn
           err == make_connection_error(devices, connections,
                                        o.dev, o.port, i.dev, i.port)
       IN  /\ connections' = make_connection(devices, connections,
                                             o.dev, o.port, i.dev, i.port)
           /\ calls' = Count(calls, "make_connection", err)
           /\ UNCHANGED <<devices, monitors_dictionary>>
           /\ IF err = "NO_ERROR" THEN Quiet ELSE Error(err)
    /\ Ctl("connection_end", stack,
           [local EXCEPT !.output_conn = RetNone, !.input_conn = RetNone])
    /\ Rest

\* _make_connection that drops the error make_connection answers
_make_connection_unreported ==
    /\ pc = "make_connection"
    /\ IF error_count > 0
       THEN /\ Quiet
            /\ NetSame
       ELSE LET o == local.output_conn
                i == local.input_conn
                err == make_connection_error(devices, connections,
                                             o.dev, o.port, i.dev, i.port)
            IN  /\ connections' = make_connection(devices, connections,
                                                  o.dev, o.port, i.dev, i.port)
                /\ calls' = Count(calls, "make_connection", err)
                /\ UNCHANGED <<devices, monitors_dictionary>>
                /\ Quiet
    /\ Ctl("connection_end", stack,
           [local EXCEPT !.output_conn = RetNone, !.input_conn = RetNone])
    /\ Rest

\* _make_connection, lines 111-127, called at line 320
_make_connection ==
    /\ pc = "make_connection"
    /\ IF error_count > 0
       THEN /\ Quiet
            /\ NetSame
       ELSE LET o == local.output_conn
                i == local.input_conn
                err == make_connection_error(devices, connections,
                                             o.dev, o.port, i.dev, i.port)
            IN  /\ connections' = make_connection(devices, connections,
                                                  o.dev, o.port, i.dev, i.port)
                /\ calls' = Count(calls, "make_connection", err)
                /\ UNCHANGED <<devices, monitors_dictionary>>
                /\ IF err = "NO_ERROR" THEN Quiet ELSE Error(err)
    /\ Ctl("connection_end", stack,
           [local EXCEPT !.output_conn = RetNone, !.input_conn = RetNone])
    /\ Rest

\* line 322: _expect_symbol(SEMICOLON, SEMICOLON)
ConnectionEnd ==
    /\ pc = "connection_end"
    /\ IF symbol.type = SEMICOLON
       THEN /\ _get_next_symbol
            /\ Ctl("connection_loop", stack,
                   [local EXCEPT !.output_conn = RetNone])
       ELSE /\ Error("EXPECTED_SYMBOL")
            /\ SkipThen(SEMICOLON, "connection_end_next", stack,
                        [local EXCEPT !.output_conn = RetNone])
    /\ NetSame /\ Rest

\* the connection rule that stays on the ';' it skipped to
ConnectionEndNext_no_advance ==
    /\ pc = "connection_end_next"
    /\ Quiet
    /\ Goto("connection_loop")
    /\ NetSame /\ Rest

\* line 323: _get_next_symbol() after the failed _expect_symbol
ConnectionEndNext ==
    /\ pc = "connection_end_next"
    /\ _get_next_symbol
    /\ Goto("connection_loop")
    /\ NetSame /\ Rest

\* _rule_monitor, lines 331-333, with _monitor_output, lines 100-109:
\* one turn of the loop over the outputs
_monitor_output ==
    /\ pc = "monitor_outputs"
    /\ IF local.returns = <<>>
       THEN /\ Quiet
            /\ NetSame
            /\ Goto("check_eof")
       ELSE LET output == Head(local.returns)
                err == make_monitor_error(devices, monitors_dictionary,
                                          output.dev, output.port)
            IN  /\ IF output.none \/ error_count > 0
                   THEN /\ Quiet
                        /\ NetSame
                   ELSE /\ monitors_dictionary' =
                               make_monitor(devices, monitors_dictionary,
                                            output.dev, output.port)
                        /\ calls' = Count(calls, "make_monitor", err)
                        /\ UNCHANGED <<devices, connections>>
                        /\ IF err = "NO_ERROR" THEN Quiet ELSE Error(err)
                /\ Ctl("monitor_outputs", stack,
                       [local EXCEPT !.returns = Tail(@)])
    /\ Rest

\* the end of parse_network that accepts whatever follows
CheckEof_anything_follows ==
    /\ pc = "check_eof"
    /\ Quiet
    /\ Goto("finish")
    /\ NetSame /\ Rest

\* lines 218-219: anything after the MONITOR statement
CheckEof ==
    /\ pc = "check_eof"
    /\ IF symbol.type # EOF THEN Error("EXPECTED_EOF") ELSE Quiet
    /\ Goto("finish")
    /\ NetSame /\ Rest

\* _finish_parsing that works out its answer before the final check
_finish_parsing_early_answer ==
    /\ pc = "finish"
    /\ IF error_count = 0
       THEN /\ calls' = [calls EXCEPT !.check_network = @ + 1]
            /\ IF ~check_network(devices, connections)
               THEN Error("NETWORK_INPUTS_UNCONNECTED")
               ELSE Quiet
       ELSE /\ Quiet
            /\ calls' = calls
    /\ result' = (error_count = 0)
    /\ Ctl("done", <<>>, NoLocal)
    /\ UNCHANGED <<devices, connections, monitors_dictionary, ui_started,
                   cli, guiVars, namesVars,
                   scannerVars>>

\* _finish_parsing that checks the network whatever the error count
_finish_parsing_always_checks ==
    /\ pc = "finish"
    /\ calls' = [calls EXCEPT !.check_network = @ + 1]
    /\ IF ~check_network(devices, connections)
       THEN Error("NETWORK_INPUTS_UNCONNECTED")
       ELSE Quiet
    /\ result' = (error_count' = 0)
    /\ Ctl("done", <<>>, NoLocal)
    /\ UNCHANGED <<devices, connections, monitors_dictionary, ui_started,
                   cli, guiVars, namesVars,
                   scannerVars>>

\* _finish_parsing, lines 223-233
_finish_parsing ==
    /\ pc = "finish"
    /\ IF error_count = 0
       THEN /\ calls' = [calls EXCEPT !.check_network = @ + 1]
            /\ IF ~check_network(devices, connections)
               THEN Error("NETWORK_INPUTS_UNCONNECTED")
               ELSE Quiet
       ELSE /\ Quiet
            /\ calls' = calls
    /\ result' = (error_count' = 0)
    /\ Ctl("done", <<>>, NoLocal)
    /\ UNCHANGED <<devices, connections, monitors_dictionary, ui_started,
                   cli, guiVars, namesVars,
                   scannerVars>>

\* logsim.py main, lines 63-109: the interface runs if parse_network is true.
\* With option -c that is the command line interface (lines 66-69).  With no
\* option it is the window of gui.py (lines 92-109), whose __init__ calls _
\* at line 646, a name that logsim.py binds at line 105 as a local of main
\* only: the call raises NameError before any window is shown, unless one of
\* the modules logsim.py imports has made _ a builtin name
main ==
    /\ pc = "done"
    /\ pc' = "exit"
    /\ \E raised \in BOOLEAN :
          /\ raised => (result /\ cli.options = <<>>)
          /\ ui_started' = (result /\ ~raised)
          /\ cli' = IF raised THEN [cli EXCEPT !.cause = "NameError"] ELSE cli
    /\ UNCHANGED <<stack, symbol, source, error_count, suppressed_errors,
                   last_err, edi_shown, local, result, guiVars, namesVars,
                   scannerVars>>
    /\ NetSame

\* main is not running
NoCommand ==
    [pc |-> "parked", arg_list |-> <<>>, options |-> <<>>, arguments |-> <<>>,
     i |-> 0, path |-> <<>>, status |-> NoneId, cause |-> "none"]

ParserInit ==
    /\ pc = "start"
    /\ stack = <<>>
    /\ symbol = NoSymbol
    /\ source = [free |-> TRUE, symbols |-> <<>>, file |-> <<>>,
                 errs |-> <<>>, count |-> 0, mode |-> "reading"]
    /\ error_count = 0
    /\ suppressed_errors = <<>>
    /\ last_err = "NO_ERROR"
    /\ edi_shown = 0
    /\ local = NoLocal
    /\ result = FALSE
    /\ ui_started = FALSE
    /\ cli = NoCommand

NetInit ==
    /\ devices = [i \in NameIds |-> NoDevice]
    /\ connections = {}
    /\ monitors_dictionary = <<>>
    /\ calls = [make_device |-> 0, make_connection |-> 0, make_monitor |-> 0,
                check_network |-> 0, failed |-> 0]

ParserNext ==
    \/ ParseStart \/ ExpectDevices \/ ExpectColon1 \/ DeviceLoop
    \/ DeviceLoopNext \/ SkipToSymbol \/ OneOrMoreLoop \/ DeviceNameInit
    \/ DniQualifier \/ DniNumber \/ DniClose \/ _initialise_device
    \/ ExpectConnections \/ ExpectColon2 \/ ConnectionLoop
    \/ ConnectionLoopNext \/ OutputIdentifier \/ OiDevice \/ OiPort
    \/ ConnectionGreater \/ InputIdentifier \/ IiDevice \/ IiFail \/ IiPort
    \/ _make_connection \/ ConnectionEnd \/ ConnectionEndNext
    \/ _monitor_output \/ CheckEof \/ _finish_parsing \/ main


(***************************************************************************)
(* Network step and monitor recording: modelled from sections 4.4 and 4.5  *)
(* of the specification, for circuits of switches and gates.               *)
(***************************************************************************)
LOW == 0
HIGH == 1

\* section 4.4 step 3: the level a gate puts out for the levels it reads
GateOutput(devs, conns, outs, i) ==
    LET d == devs[i]
        ins == {c \in conns : c.slot.dev = i}
        high == {c \in ins : outs[c.ref.dev] = HIGH}
    IN  CASE d.kind = "AND" -> IF high = ins THEN HIGH ELSE LOW
          [] d.kind = "NAND" -> IF high = ins THEN LOW ELSE HIGH
          [] d.kind = "OR" -> IF high # {} THEN HIGH ELSE LOW
          [] d.kind = "NOR" -> IF high # {} THEN LOW ELSE HIGH
          [] d.kind = "XOR" -> IF Cardinality(high) = 1 THEN HIGH ELSE LOW
          [] d.kind = "SWITCH" -> d.qualifier
          [] OTHER -> outs[i]

\* one pass over all devices
SettlePass(devs, conns, outs) ==
    [i \in DOMAIN outs |-> GateOutput(devs, conns, outs, i)]

\* section 4.4 step 3: passes until nothing changes or the bound is used up
RECURSIVE Settle(_, _, _, _)
Settle(devs, conns, outs, left) ==
    LET next == SettlePass(devs, conns, outs)
    IN  IF next = outs THEN [settled |-> TRUE, outputs |-> outs]
        ELSE IF left = 0 THEN [settled |-> FALSE, outputs |-> next]
        ELSE Settle(devs, conns, next, left - 1)

\* section 4.4: step() answers false if the network failed to settle
execute_network(devs, conns, outs) ==
    Settle(devs, conns, outs, 3 * Cardinality(DOMAIN devs) + 10)

\* section 4.5: record_step appends the level of every monitored output
record_signals(mons, outs) ==
    [k \in DOMAIN mons |-> Append(mons[k], outs[k.dev])]

\* section 4.5: reset clears every recorded sequence
reset_monitors(mons) == [k \in DOMAIN mons |-> <<>>]

\* section 4.3: set_switch
set_switch(devs, id, level) == [devs EXCEPT ![id].qualifier = level]

(***************************************************************************)
(* Graphical driver (gui.py).  The circuits it is started on are networks  *)
(* parse_network accepts: every input is connected.                        *)
(***************************************************************************)
G1 == I1_ID
SW1 == I1_ID + 1

\* DEVICES: NAND G1(1); SWITCH SW1(s); CONNECTIONS: SW1 > G1.I1;
\* and the oscillator    ...            CONNECTIONS: G1 > G1.I1;
GuiCircuits ==
    {[devices |-> (G1 :> [kind |-> "NAND", qualifier |-> 1]) @@
                  (SW1 :> [kind |-> "SWITCH", qualifier |-> LOW]),
      connections |-> {[slot |-> Slot(G1, I1_ID), ref |-> Ref(src, NoneId)]}]
     : src \in {G1, SW1}}

\* names.get_name_string for the two devices, names.query back
NameString(id) == IF id = G1 THEN "G1" ELSE "SW1"
query_name(name) == CHOOSE id \in {G1, SW1} : NameString(id) = name

\* monitors.get_signal_names: monitored and not monitored signal names
get_signal_names(devs, mons) ==
    LET order == <<G1, SW1>>
        pick(keep(_)) == SelectSeq(order, keep)
        isMon(id) == Ref(id, NoneId) \in DOMAIN mons
        notMon(id) == ~isMon(id)
        toNames(q) == [n \in DOMAIN q |-> NameString(q[n])]
    IN  <<toNames(pick(isMon)), toNames(pick(notMon))>>

RemoveName(q, name) == SelectSeq(q, LAMBDA x : x # name)

SpinStart == IF 10 <= MaxSpin THEN 10 ELSE MaxSpin

\* Gui.__init__, lines 600-601: values and trace_names are None, written as
\* lists that no run of the network can give
NoValues == <<<<NoneId>>>>
NoTraceNames == <<"">>

\* MyGLCanvas.render, lines 286-291: render_2D, lines 243-245, and render_3D,
\* lines 418-420, put one empty trace where there are no values (None or [])
render(v, t) ==
    IF v = NoValues \/ v = <<>>
    THEN [values |-> <<<<>>>>, trace_names |-> <<"Click Run to START">>]
    ELSE [values |-> v, trace_names |-> t]

\* no monitor: the list is not one of the dictionary of the monitors
NoMonitor == Ref(NoneId, NoneId)

\* run_network_and_get_values, lines 881-884, and on_continue_button, lines
\* 853-856, append to Gui.values the lists of the dictionary themselves, and
\* record_signals of section 4.5 appends to those lists: the lists v, of
\* which s names the ones that are lists of a monitor, when the dictionary
\* has become mons
Aliased(v, s, mons) ==
    [i \in DOMAIN v |->
        IF i \in DOMAIN s /\ s[i] \in DOMAIN mons THEN mons[s[i]] ELSE v[i]]

\* the lists of s that remove_monitor leaves to Gui.values alone
Orphaned(s, mons) ==
    [i \in DOMAIN s |-> IF s[i] \in DOMAIN mons THEN s[i] ELSE NoMonitor]

\* self.canvas.render(text) on the values and trace names v and t, the
\* lists of the monitors s: the empty trace of render is a new list
Rendered(v, t, s) ==
    /\ values' = render(v, t).values
    /\ trace_names' = render(v, t).trace_names
    /\ shared' = IF render(v, t).values = v THEN s ELSE <<>>

NoHistory == [executed |-> 0, recorded |-> 0, requested |-> -1,
              changed |-> FALSE, added |-> FALSE, cold |-> FALSE]

\* Gui.__init__, lines 599-622 and 647, of a window that has been made (_ is
\* a builtin name)
GuiInit ==
    /\ \E c \in GuiCircuits :
          /\ devices = c.devices
          /\ connections = c.connections
    /\ \E m \in SUBSET {Ref(G1, NoneId), Ref(SW1, NoneId)} :
          monitors_dictionary = [k \in m |-> <<>>]
    /\ calls = [make_device |-> 0, make_connection |-> 0, make_monitor |-> 0,
                check_network |-> 0, failed |-> 0]
    /\ outputs = (G1 :> LOW) @@ (SW1 :> LOW)
    /\ gui_pc = "idle"
    /\ spin = SpinStart
    /\ time_steps = 1
    /\ current_steps = 0
    /\ loop_i = 0
    /\ osc_here = FALSE
    /\ canvas = [oscillating |-> FALSE, not_connected |-> FALSE]
    /\ values = NoValues
    /\ trace_names = NoTraceNames
    /\ shared = <<>>
    /\ sig_mons = get_signal_names(devices, monitors_dictionary)[1]
    /\ sig_not_mons = get_signal_names(devices, monitors_dictionary)[2]
    /\ history = NoHistory

\* the driver is not running
GuiParked ==
    /\ outputs = <<>>
    /\ gui_pc = "off"
    /\ spin = 0
    /\ time_steps = 0
    /\ current_steps = 0
    /\ loop_i = 0
    /\ osc_here = FALSE
    /\ canvas = [oscillating |-> FALSE, not_connected |-> FALSE]
    /\ values = NoValues
    /\ trace_names = NoTraceNames
    /\ shared = <<>>
    /\ sig_mons = <<>>
    /\ sig_not_mons = <<>>
    /\ history = NoHistory

GuiFrame ==
    UNCHANGED <<parserVars, namesVars, scannerVars, calls, connections>>

\* Gui.__init__ again, for the window Toolbarhandler opens on circuit c
\* with the monitors m
Opened(c, m) ==
    /\ devices' = c.devices
    /\ connections' = c.connections
    /\ monitors_dictionary' = [k \in m |-> <<>>]
    /\ calls' = [make_device |-> 0, make_connection |-> 0, make_monitor |-> 0,
                 check_network |-> 0, failed |-> 0]
    /\ outputs' = (G1 :> LOW) @@ (SW1 :> LOW)
    /\ gui_pc' = "idle"
    /\ spin' = SpinStart
    /\ time_steps' = 1
    /\ current_steps' = 0
    /\ loop_i' = 0
    /\ osc_here' = FALSE
    /\ canvas' = [oscillating |-> FALSE, not_connected |-> FALSE]
    /\ values' = NoValues
    /\ trace_names' = NoTraceNames
    /\ shared' = <<>>
    /\ sig_mons' = get_signal_names(devices', monitors_dictionary')[1]
    /\ sig_not_mons' = get_signal_names(devices', monitors_dictionary')[2]
    /\ history' = NoHistory

\* Toolbarhandler, lines 751-820: the view button renders; Quit closes the
\* window; Open file closes it and, when parse_network accepts the file
\* chosen, opens a new window on the network of that file (About, Help and
\* a cancelled Open file change nothing)
Toolbarhandler ==
    /\ gui_pc = "idle"
    /\ \/ /\ Rendered(values, trace_names, shared)
          /\ UNCHANGED <<outputs, gui_pc, spin, time_steps, current_steps,
                         loop_i, osc_here, canvas, sig_mons, sig_not_mons,
                         history, netVars>>
       \/ /\ gui_pc' = "closed"
          /\ UNCHANGED <<outputs, spin, time_steps, current_steps, loop_i,
                         osc_here, canvas, values, trace_names, shared,
                         sig_mons, sig_not_mons, history, netVars>>
       \/ \E c \in GuiCircuits :
             \E m \in SUBSET {Ref(G1, NoneId), Ref(SW1, NoneId)} :
                Opened(c, m)
    /\ UNCHANGED <<parserVars, namesVars, scannerVars>>

\* MyGLCanvas.on_paint, lines 293-304: the window is painted (on_mouse and
\* on_text_box render the same way)
on_paint ==
    /\ gui_pc = "idle"
    /\ Rendered(values, trace_names, shared)
    /\ UNCHANGED <<outputs, gui_pc, spin, time_steps, current_steps, loop_i,
                   osc_here, canvas, sig_mons, sig_not_mons, history,
                   devices, monitors_dictionary>>
    /\ GuiFrame

\* on_spin, lines 822-826: the user changes the spin control
on_spin ==
    /\ gui_pc = "idle"
    /\ \E v \in 0..MaxSpin : v # spin /\ spin' = v
    /\ Rendered(values, trace_names, shared)
    /\ UNCHANGED <<outputs, gui_pc, time_steps, current_steps, loop_i,
                   osc_here, canvas, sig_mons, sig_not_mons, history,
                   devices, monitors_dictionary>>
    /\ GuiFrame

\* on_run_button that does not call reset_monitors
on_run_button_no_reset ==
    /\ gui_pc = "idle"
    /\ time_steps' = spin
    /\ canvas' = [canvas EXCEPT
                    !.not_connected = ~check_network(devices, connections)]
    /\ IF canvas'.not_connected
       THEN /\ Rendered(values, trace_names, shared)
            /\ UNCHANGED <<gui_pc, osc_here, loop_i, history>>
       ELSE /\ UNCHANGED <<values, trace_names, shared>>
            /\ osc_here' = FALSE
            /\ loop_i' = 0
            /\ gui_pc' = "run_loop"
            /\ history' = [executed |-> 0, recorded |-> 0, requested |-> spin,
                           changed |-> FALSE, added |-> FALSE, cold |-> TRUE]
    /\ UNCHANGED <<outputs, spin, current_steps, sig_mons,
                   sig_not_mons, devices, monitors_dictionary>>
    /\ GuiFrame

\* on_run_button, lines 830-832, and run_network_and_get_values, 865-871
on_run_button ==
    /\ gui_pc = "idle"
    /\ time_steps' = spin
    /\ canvas' = [canvas EXCEPT
                    !.not_connected = ~check_network(devices, connections)]
    /\ IF canvas'.not_connected
       THEN /\ Rendered(values, trace_names, shared)
            /\ UNCHANGED <<gui_pc, monitors_dictionary, osc_here, loop_i,
                           history>>
       ELSE /\ UNCHANGED <<values, trace_names>>
            /\ monitors_dictionary' = reset_monitors(monitors_dictionary)
            /\ shared' = <<>>
            /\ osc_here' = FALSE
            /\ loop_i' = 0
            /\ gui_pc' = "run_loop"
            /\ history' = [executed |-> 0, recorded |-> 0, requested |-> spin,
                           changed |-> FALSE, added |-> FALSE, cold |-> TRUE]
    /\ UNCHANGED <<outputs, spin, current_steps, sig_mons,
                   sig_not_mons, devices>>
    /\ GuiFrame

\* the orders in which a dictionary of these keys can be gone through: the
\* monitors are kept in the order they were made in, which the map of
\* section 4.5 does not hold
Orders(keys) ==
    {o \in [1..Cardinality(keys) -> keys] :
        \A i, j \in DOMAIN o : o[i] = o[j] => i = j}

\* the end of both handlers, lines 879-885 and 853-861: self.values = [],
\* then the list of every monitor appended in the order of the dictionary,
\* the trace names, then render
ShowValues(mons) ==
    \E o \in Orders(DOMAIN mons) :
        Rendered([i \in DOMAIN o |-> mons[o[i]]],
                 get_signal_names(devices, mons)[1], o)

\* lines 872-875 and 877-885: one network step, or the end of the loop
RunLoop ==
    /\ gui_pc = "run_loop"
    /\ IF loop_i < time_steps
       THEN LET step == execute_network(devices, connections, outputs)
            IN  /\ outputs' = step.outputs
                /\ history' = [history EXCEPT !.executed = @ + 1]
                /\ IF ~step.settled
                   THEN /\ canvas' = [canvas EXCEPT !.oscillating = TRUE]
                        /\ osc_here' = TRUE
                   ELSE UNCHANGED <<canvas, osc_here>>
                /\ gui_pc' = "run_record"
                /\ UNCHANGED <<values, trace_names, shared>>
       ELSE /\ canvas' = IF ~osc_here
                         THEN [canvas EXCEPT !.oscillating = FALSE]
                         ELSE canvas
            /\ ShowValues(monitors_dictionary)
            /\ gui_pc' = "idle"
            /\ UNCHANGED <<outputs, history, osc_here>>
    /\ UNCHANGED <<spin, time_steps, current_steps, loop_i, sig_mons,
                   sig_not_mons, devices, monitors_dictionary>>
    /\ GuiFrame

\* a loop that records only the steps that settled
RunRecord_only_settled ==
    /\ gui_pc = "run_record"
    /\ IF osc_here
       THEN UNCHANGED <<monitors_dictionary, history>>
       ELSE /\ monitors_dictionary' =
                   record_signals(monitors_dictionary, outputs)
            /\ history' = [history EXCEPT !.recorded = @ + 1]
    /\ values' = Aliased(values, shared, monitors_dictionary')
    /\ loop_i' = loop_i + 1
    /\ gui_pc' = "run_loop"
    /\ UNCHANGED <<outputs, spin, time_steps, current_steps, osc_here, canvas,
                   trace_names, shared, sig_mons, sig_not_mons, devices>>
    /\ GuiFrame

\* line 876: record_signals after the step, which the lists of Gui.values
\* that are lists of a monitor show
RunRecord ==
    /\ gui_pc = "run_record"
    /\ monitors_dictionary' = record_signals(monitors_dictionary, outputs)
    /\ values' = Aliased(values, shared, monitors_dictionary')
    /\ history' = [history EXCEPT !.recorded = @ + 1]
    /\ loop_i' = loop_i + 1
    /\ gui_pc' = "run_loop"
    /\ UNCHANGED <<outputs, spin, time_steps, current_steps, osc_here, canvas,
                   trace_names, shared, sig_mons, sig_not_mons, devices>>
    /\ GuiFrame

\* on_continue_button whose loop starts at 0: range(self.current_steps)
on_continue_button_from_zero ==
    /\ gui_pc = "idle"
    /\ time_steps + spin <= MaxCycles
    /\ current_steps' = time_steps + spin
    /\ osc_here' = FALSE
    /\ loop_i' = 0
    /\ gui_pc' = "continue_loop"
    /\ history' = [history EXCEPT
                     !.requested = IF @ < 0 THEN @ ELSE @ + spin]
    /\ UNCHANGED <<outputs, spin, time_steps, canvas, values, trace_names,
                   shared, sig_mons, sig_not_mons, devices,
                   monitors_dictionary>>
    /\ GuiFrame

\* on_continue_button, lines 839-844
on_continue_button ==
    /\ gui_pc = "idle"
    /\ time_steps + spin <= MaxCycles
    /\ current_steps' = time_steps + spin
    /\ osc_here' = FALSE
    /\ loop_i' = time_steps
    /\ gui_pc' = "continue_loop"
    /\ history' = [history EXCEPT
                     !.requested = IF @ < 0 THEN @ ELSE @ + spin]
    /\ UNCHANGED <<outputs, spin, time_steps, canvas, values, trace_names,
                   shared, sig_mons, sig_not_mons, devices,
                   monitors_dictionary>>
    /\ GuiFrame

\* lines 845-848 and 850-857: one network step, or the end of the loop
ContinueLoop ==
    /\ gui_pc = "continue_loop"
    /\ IF loop_i < current_steps
       THEN LET step == execute_network(devices, connections, outputs)
            IN  /\ outputs' = step.outputs
                /\ history' = [history EXCEPT !.executed = @ + 1]
                /\ IF ~step.settled
                   THEN /\ canvas' = [canvas EXCEPT !.oscillating = TRUE]
                        /\ osc_here' = TRUE
                   ELSE UNCHANGED <<canvas, osc_here>>
                /\ gui_pc' = "continue_record"
                /\ UNCHANGED <<values, trace_names, shared, time_steps>>
       ELSE /\ canvas' = IF ~osc_here
                         THEN [canvas EXCEPT !.oscillating = FALSE]
                         ELSE canvas
            /\ ShowValues(monitors_dictionary)
            /\ time_steps' = current_steps
            /\ gui_pc' = "idle"
            /\ UNCHANGED <<outputs, history, osc_here>>
    /\ UNCHANGED <<spin, current_steps, loop_i, sig_mons, sig_not_mons,
                   devices, monitors_dictionary>>
    /\ GuiFrame

\* line 849: record_signals after the step, which the lists of Gui.values
\* that are lists of a monitor show
ContinueRecord ==
    /\ gui_pc = "continue_record"
    /\ monitors_dictionary' = record_signals(monitors_dictionary, outputs)
    /\ values' = Aliased(values, shared, monitors_dictionary')
    /\ history' = [history EXCEPT !.recorded = @ + 1]
    /\ loop_i' = loop_i + 1
    /\ gui_pc' = "continue_loop"
    /\ UNCHANGED <<outputs, spin, time_steps, current_steps, osc_here, canvas,
                   trace_names, shared, sig_mons, sig_not_mons, devices>>
    /\ GuiFrame

\* on_switch_set, lines 902-912: the check box sets switch SW1
on_switch_set ==
    /\ gui_pc = "idle"
    /\ \E level \in {LOW, HIGH} :
          /\ level # devices[SW1].qualifier
          /\ devices' = set_switch(devices, query_name("SW1"), level)
    /\ Rendered(values, trace_names, shared)
    /\ UNCHANGED <<outputs, gui_pc, spin, time_steps, current_steps, loop_i,
                   osc_here, canvas, sig_mons, sig_not_mons, history,
                   monitors_dictionary>>
    /\ GuiFrame

\* on_add_monitor_button, lines 914-941, for the name chosen in the box
on_add_monitor_button ==
    /\ gui_pc = "idle"
    /\ \E mon_choice_name \in Range(sig_not_mons) :
          /\ monitors_dictionary' =
                 make_monitor(devices, monitors_dictionary,
                              query_name(mon_choice_name), NoneId)
          /\ sig_not_mons' = RemoveName(sig_not_mons, mon_choice_name)
          /\ sig_mons' = Append(sig_mons, mon_choice_name)
    /\ history' = [history EXCEPT !.changed = TRUE, !.added = TRUE]
    /\ Rendered(values, trace_names, shared)
    /\ UNCHANGED <<outputs, gui_pc, spin, time_steps, current_steps, loop_i,
                   osc_here, canvas, devices>>
    /\ GuiFrame

\* on_remove_monitor_button, lines 943-971, for the name chosen in the box
on_remove_monitor_button ==
    /\ gui_pc = "idle"
    /\ \E mon_choice_name \in Range(sig_mons) :
          /\ monitors_dictionary' =
                 remove_monitor(monitors_dictionary,
                                query_name(mon_choice_name), NoneId)
          /\ sig_not_mons' = Append(sig_not_mons, mon_choice_name)
          /\ sig_mons' = RemoveName(sig_mons, mon_choice_name)
    /\ history' = [history EXCEPT !.changed = TRUE]
    /\ Rendered(values, trace_names, Orphaned(shared, monitors_dictionary'))
    /\ UNCHANGED <<outputs, gui_pc, spin, time_steps, current_steps, loop_i,
                   osc_here, canvas, devices>>
    /\ GuiFrame

GuiNext ==
    \/ Toolbarhandler \/ on_paint \/ on_spin \/ on_run_button \/ RunLoop \/ RunRecord
    \/ on_continue_button \/ ContinueLoop \/ ContinueRecord
    \/ on_switch_set \/ on_add_monitor_button \/ on_remove_monitor_button

(***************************************************************************)
(* Name table (names.py).  A string is a sequence of characters.           *)
(***************************************************************************)
Letters == {"a", "b", "Q", "q"}
Digits == {"1"}

\* the strings the calls are made with: "", "a", "b", "a1", "1", "a?"
NameStrings == {<<>>, <<"a">>, <<"a", "1">>, <<"1">>, <<"a", "?">>}

\* str.isalnum and str.isdigit: not empty, every character of the class
isalnum(str) == str # <<>> /\ \A i \in DOMAIN str : str[i] \in Letters \cup Digits
isdigit(str) == str # <<>> /\ \A i \in DOMAIN str : str[i] \in Digits

\* list.index: position of the first equal entry, counted from 0
index(list, x) ==
    (CHOOSE i \in DOMAIN list :
        list[i] = x /\ \A j \in DOMAIN list : list[j] = x => i <= j) - 1

\* lookup that answers the ID of the last entry: len(self.names) - 1
RECURSIVE lookup_from_last_id(_, _, _)
lookup_from_last_id(table, name_string_list, name_ids) ==
    IF name_string_list = <<>>
    THEN [names |-> table, name_ids |-> name_ids]
    ELSE LET name == Head(name_string_list)
             added == IF name \notin Range(table)
                      THEN Append(table, name) ELSE table
         IN  lookup_from_last_id(added, Tail(name_string_list),
                                 Append(name_ids, Len(added) - 1))

\* lookup that puts a new string at the front: self.names.insert(0, name)
RECURSIVE lookup_from_prepends(_, _, _)
lookup_from_prepends(table, name_string_list, name_ids) ==
    IF name_string_list = <<>>
    THEN [names |-> table, name_ids |-> name_ids]
    ELSE LET name == Head(name_string_list)
             added == IF name \notin Range(table)
                      THEN <<name>> \o table ELSE table
         IN  lookup_from_prepends(added, Tail(name_string_list),
                                  Append(name_ids, index(added, name)))

\* lookup that appends without the test `name not in self.names`
RECURSIVE lookup_from_always_appends(_, _, _)
lookup_from_always_appends(table, name_string_list, name_ids) ==
    IF name_string_list = <<>>
    THEN [names |-> table, name_ids |-> name_ids]
    ELSE LET name == Head(name_string_list)
             added == Append(table, name)
         IN  lookup_from_always_appends(added, Tail(name_string_list),
                                        Append(name_ids, index(added, name)))

\* Names.lookup, lines 84-89: the table and the IDs after the loop
RECURSIVE lookup_from(_, _, _)
lookup_from(table, name_string_list, name_ids) ==
    IF name_string_list = <<>>
    THEN [names |-> table, name_ids |-> name_ids]
    ELSE LET name == Head(name_string_list)
             added == IF name \notin Range(table)
                      THEN Append(table, name) ELSE table
         IN  lookup_from(added, Tail(name_string_list),
                         Append(name_ids, index(added, name)))

lookup(table, name_string_list) == lookup_from(table, name_string_list, <<>>)

\* query without the test of isdigit
query_digits_allowed(table, name_string) ==
    IF ~isalnum(name_string)
    THEN [raised |-> "SyntaxError", none |-> TRUE, value |-> NoneId]
    ELSE IF name_string \in Range(table)
    THEN [raised |-> "", none |-> FALSE, value |-> index(table, name_string)]
    ELSE [raised |-> "", none |-> TRUE, value |-> NoneId]

\* Names.query, lines 55-70
query(table, name_string) ==
    IF ~isalnum(name_string) \/ isdigit(name_string)
    THEN [raised |-> "SyntaxError", none |-> TRUE, value |-> NoneId]
    ELSE IF name_string \in Range(table)
    THEN [raised |-> "", none |-> FALSE, value |-> index(table, name_string)]
    ELSE [raised |-> "", none |-> TRUE, value |-> NoneId]

\* get_name_string without the test name_id < 0: a negative index of a
\* Python list counts from the end
get_name_string_from_end(table, name_id) ==
    IF name_id < 0 /\ Len(table) + name_id + 1 \in DOMAIN table
    THEN [raised |-> "", none |-> FALSE,
          value |-> table[Len(table) + name_id + 1]]
    ELSE IF name_id + 1 \in DOMAIN table
    THEN [raised |-> "", none |-> FALSE, value |-> table[name_id + 1]]
    ELSE [raised |-> "", none |-> TRUE, value |-> <<>>]

\* Names.get_name_string, lines 91-101
get_name_string(table, name_id) ==
    IF name_id < 0
    THEN [raised |-> "ValueError", none |-> TRUE, value |-> <<>>]
    ELSE IF name_id + 1 \in DOMAIN table
    THEN [raised |-> "", none |-> FALSE, value |-> table[name_id + 1]]
    ELSE [raised |-> "", none |-> TRUE, value |-> <<>>]

\* Names.unique_error_codes, lines 47-53: the codes of range(a, b)
unique_error_codes(count, num_error_codes) ==
    [error_code_count |-> count + num_error_codes,
     codes |-> count .. (count + num_error_codes - 1)]

Lists(S, n) == UNION {[1..k -> S] : k \in 0..n}

\* the distinct strings of the lists passed to lookup, in the order in which
\* they were first passed
RECURSIVE FirstSeen(_, _)
FirstSeen(seen, list) ==
    IF list = <<>> THEN seen
    ELSE FirstSeen(IF \E i \in DOMAIN seen : seen[i] = Head(list)
                   THEN seen ELSE seen \o <<Head(list)>>,
                   Tail(list))

\* the call just made and its answer; returned: the IDs lookup has answered
\* so far, seen: the strings lookup was given so far, codes: the error
\* codes handed out so far
Call(op, arg, res, raised) ==
    [op |-> op, arg |-> arg, result |-> res, raised |-> raised,
     returned |-> IF op = "lookup"
                  THEN last_call.returned \cup Range(res)
                  ELSE last_call.returned,
     seen |-> IF op = "lookup"
              THEN FirstSeen(last_call.seen, arg) ELSE last_call.seen,
     codes |-> IF op = "unique_error_codes"
               THEN last_call.codes \cup res ELSE last_call.codes]

NamesFrame == UNCHANGED <<parserVars, netVars, guiVars, scannerVars>>

NoCall ==
    [op |-> "init", arg |-> <<>>, result |-> <<>>, raised |-> "",
     returned |-> {}, seen |-> <<>>, codes |-> {}]

\* Names.__init__, lines 41-45
NamesInit ==
    /\ names = <<>>
    /\ error_code_count = 0
    /\ last_call = NoCall

NamesLookup ==
    /\ \E list \in Lists(NameStrings, MaxList) :
          LET r == lookup(names, list)
          IN  /\ Len(r.names) <= MaxTable
              /\ names' = r.names
              /\ last_call' = Call("lookup", list, r.name_ids, "")
    /\ UNCHANGED error_code_count
    /\ NamesFrame

NamesQuery ==
    /\ \E str \in NameStrings :
          LET r == query(names, str)
          IN  last_call' = Call("query", <<str>>,
                                IF r.none THEN <<>> ELSE <<r.value>>, r.raised)
    /\ UNCHANGED <<names, error_code_count>>
    /\ NamesFrame

NamesGetNameString ==
    /\ \E id \in -1 .. MaxTable :
          LET r == get_name_string(names, id)
          IN  last_call' = Call("get_name_string", <<id>>,
                                IF r.none THEN <<>> ELSE <<r.value>>, r.raised)
    /\ UNCHANGED <<names, error_code_count>>
    /\ NamesFrame

NamesUniqueErrorCodes ==
    /\ \E n \in -1 .. 2 :
          LET r == unique_error_codes(error_code_count, n)
          IN  /\ r.error_code_count \in 0 .. MaxCodes
              /\ error_code_count' = r.error_code_count
              /\ last_call' = Call("unique_error_codes", <<n>>, r.codes, "")
    /\ UNCHANGED names
    /\ NamesFrame

NamesNext ==
    \/ NamesLookup \/ NamesQuery \/ NamesGetNameString
    \/ NamesUniqueErrorCodes

(***************************************************************************)
(* Scanner (final/scanner.py).  The file is read one character at a time;  *)
(* a character is a string of length 1, the end of the file the empty      *)
(* string, as read(1) gives them.                                          *)
(***************************************************************************)
\* the characters a definition file is made of here
FileAlphabet == {"Q", "q", "1", " ", "\n", "#", ",", "?"}
Chars == {<<c>> : c \in FileAlphabet} \cup {<<>>}

\* str.isspace and str.isalpha
isspace(str) == str # <<>> /\ \A i \in DOMAIN str : str[i] \in {" ", "\n"}
isalpha(str) == str # <<>> /\ \A i \in DOMAIN str : str[i] \in Letters

\* int(output) for a string of digits
DigitValue(c) == CASE c = "0" -> 0 [] c = "1" -> 1
RECURSIVE int(_)
int(str) ==
    IF Len(str) = 1 THEN DigitValue(str[1])
    ELSE 10 * int(SubSeq(str, 1, Len(str) - 1)) + DigitValue(str[Len(str)])

\* Scanner.keywords_list, lines 68-71
keywords_list ==
    <<<<"C", "L", "O", "C", "K">>,
     <<"S", "W", "I", "T", "C", "H">>,
     <<"A", "N", "D">>,
     <<"N", "A", "N", "D">>,
     <<"O", "R">>,
     <<"N", "O", "R">>,
     <<"D", "T", "Y", "P", "E">>,
     <<"X", "O", "R">>,
     <<"M", "O", "N", "I", "T", "O", "R">>,
     <<"Q">>,
     <<"Q", "B", "A", "R">>,
     <<"C", "L", "K">>,
     <<"D", "A", "T", "A">>,
     <<"S", "E", "T">>,
     <<"C", "L", "E", "A", "R">>,
     <<"D", "E", "V", "I", "C", "E", "S">>,
     <<"C", "O", "N", "N", "E", "C", "T", "I", "O", "N", "S">>,
     <<"R", "C">>>>

\* valid_punc of _next_valid_char and char_dict of get_symbol
valid_punc == {<<",">>, <<";">>, <<">">>, <<"(">>, <<")">>, <<".">>, <<":">>,
               <<>>}
char_dict ==
    [c \in {<<",">>, <<";">>, <<">">>, <<"(">>, <<")">>, <<".">>, <<":">>} |->
        CASE c = <<",">> -> COMMA [] c = <<";">> -> SEMICOLON
          [] c = <<">">> -> GREATER [] c = <<"(">> -> BRACK_OPEN
          [] c = <<")">> -> BRACK_CLOSE [] c = <<".">> -> DOT
          [] c = <<":">> -> COLON]

\* Symbol with its position; Symbol() has every field None
SymbolAt(type, id, line_num, char_num) ==
    [type |-> type, id |-> id, line_num |-> line_num, char_num |-> char_num]
NoScanLocal ==
    [symbol |-> SymbolAt(NoType, NoneId, NoneId, NoneId), output |-> <<>>,
     caller |-> "none", start |-> 0, called |-> 0]

\* how far the file has been read: the characters given and the end
Position == IF obj_file.eof THEN Len(obj_file.text) + 1 ELSE Len(obj_file.text)

\* _hash_count, lines 193-199: it looks at the character read before
_hash_count(s) ==
    [s EXCEPT !.hashes = IF s.current_char = <<"#">> THEN @ + 1 ELSE 0]

\* _next_char, lines 96-105, for the character read(1) gave
_next_char(s, char) ==
    [current_char |-> char,
     hashes |-> _hash_count(s).hashes,
     line_num |-> IF char = <<"\n">> THEN s.line_num + 1 ELSE s.line_num,
     char_num |-> IF char = <<"\n">> THEN 0 ELSE s.char_num + 1]

\* obj_file.read(1): any character while the file goes on, "" from its end
read(char) ==
    /\ char \in (IF obj_file.eof \/ Len(obj_file.text) >= MaxFile
                 THEN {<<>>} ELSE Chars)
    /\ obj_file' = IF char = <<>>
                   THEN [obj_file EXCEPT !.eof = TRUE]
                   ELSE [obj_file EXCEPT !.text = @ \o char]

ScanFrame ==
    UNCHANGED <<parserVars, netVars, guiVars, error_code_count, last_call>>

\* get_symbol returns sym; the symbols returned are listed up to the first
\* EOF or the first symbol without a type
ReturnSymbol(sym, str) ==
    /\ scan_pc' = "idle"
    /\ scan_local' = [scan_local EXCEPT !.symbol = sym, !.output = str]
    /\ tokens' = IF tokens # <<>>
                    /\ tokens[Len(tokens)].type \in {EOF, NoType}
                 THEN tokens
                 ELSE Append(tokens, [type |-> sym.type, id |-> sym.id,
                                      line_num |-> sym.line_num,
                                      char_num |-> sym.char_num,
                                      string |-> str,
                                      start |-> scan_local.start])

\* _next_non_comment_char returns to line 144 or to line 173
ReturnChar ==
    IF scan_local.caller = "_next_valid_char"
    THEN /\ scan_pc' = "check_char"
         /\ UNCHANGED <<scan_local, tokens>>
    ELSE ReturnSymbol(scan_local.symbol, <<>>)

\* get_symbol, lines 155-156: a new Symbol, then _next_valid_char
get_symbol ==
    /\ scan_pc = "idle"
    /\ scan_pc' = "next_valid_char"
    /\ scan_local' = [NoScanLocal EXCEPT !.called = Position]
    /\ UNCHANGED <<scanner, obj_file, tokens, names>>
    /\ ScanFrame

\* _next_valid_char, lines 141-143: the test of the while loop
_next_valid_char ==
    /\ scan_pc = "next_valid_char"
    /\ IF isspace(scanner.current_char) \/ scanner.current_char = <<"#">>
       THEN /\ scan_pc' = "next_non_comment_char"
            /\ scan_local' = [scan_local EXCEPT !.caller = "_next_valid_char"]
       ELSE /\ scan_pc' = "symbol_type"
            /\ UNCHANGED scan_local
    /\ UNCHANGED <<scanner, obj_file, tokens, names>>
    /\ ScanFrame

\* _next_valid_char, lines 144-150: the character that came back
CheckChar ==
    /\ scan_pc = "check_char"
    /\ LET cur_char == scanner.current_char
       IN  scan_pc' = IF /\ ~isalnum(cur_char) /\ ~isspace(cur_char)
                         /\ cur_char \notin valid_punc
                      THEN "exit" ELSE "next_valid_char"
    /\ UNCHANGED <<scanner, obj_file, scan_local, tokens, names>>
    /\ ScanFrame

\* _next_non_comment_char, lines 109-111: the next character, returned
\* unless it is '#'
_next_non_comment_char ==
    /\ scan_pc = "next_non_comment_char"
    /\ \E char \in Chars :
          /\ read(char)
          /\ scanner' = _next_char(scanner, char)
    /\ IF scanner'.current_char # <<"#">>
       THEN ReturnChar
       ELSE /\ scan_pc' = "comment_loop"
            /\ UNCHANGED <<scan_local, tokens>>
    /\ UNCHANGED names
    /\ ScanFrame

\* lines 113-117 and 128-137: one turn of the loop over a comment
CommentLoop ==
    /\ scan_pc = "comment_loop"
    /\ IF scanner.hashes = 3
       THEN /\ scanner' = [scanner EXCEPT !.hashes = 0]
            /\ scan_pc' = "block_comment"
            /\ UNCHANGED <<obj_file, scan_local, tokens>>
       ELSE IF scanner.current_char = <<"\n">>
       THEN /\ \E char \in Chars :
                  /\ read(char)
                  /\ scanner' = _next_char(scanner, char)
            /\ IF scanner'.current_char # <<"#">>
               THEN ReturnChar
               ELSE /\ scan_pc' = "comment_loop"
                    /\ UNCHANGED <<scan_local, tokens>>
       ELSE IF scanner.current_char = <<>>
       THEN /\ ReturnChar
            /\ UNCHANGED <<scanner, obj_file>>
       ELSE /\ \E char \in Chars :
                  /\ read(char)
                  /\ scanner' = _next_char(scanner, char)
            /\ scan_pc' = "comment_loop"
            /\ UNCHANGED <<scan_local, tokens>>
    /\ UNCHANGED names
    /\ ScanFrame

\* lines 118-126: inside '###', up to the character after the next '###'
BlockComment ==
    /\ scan_pc = "block_comment"
    /\ IF scanner.hashes < 3
       THEN /\ \E char \in Chars :
                  /\ read(char)
                  /\ scanner' = _next_char(scanner, char)
            /\ IF scanner'.current_char = <<>>
               THEN ReturnChar
               ELSE /\ scan_pc' = "block_comment"
                    /\ UNCHANGED <<scan_local, tokens>>
       ELSE IF scanner.current_char = <<"#">>
       THEN /\ \E char \in Chars :
                  /\ read(char)
                  /\ scanner' = _next_char([scanner EXCEPT !.hashes = 0], char)
            /\ scan_pc' = "comment_loop"
            /\ UNCHANGED <<scan_local, tokens>>
       ELSE /\ scanner' = [scanner EXCEPT !.hashes = 0]
            /\ ReturnChar
            /\ UNCHANGED obj_file
    /\ UNCHANGED names
    /\ ScanFrame

\* get_symbol, lines 158-191: the position, then the type by the character
SymbolType ==
    /\ scan_pc = "symbol_type"
    /\ LET cur == scanner.current_char
           sym == [scan_local.symbol EXCEPT !.line_num = scanner.line_num,
                                            !.char_num = scanner.char_num]
           at == [scan_local EXCEPT
                    !.symbol = sym,
                    !.start = IF obj_file.eof THEN Len(obj_file.text) + 1
                              ELSE Len(obj_file.text)]
       IN  IF cur \in DOMAIN char_dict
           THEN /\ scan_pc' = "next_non_comment_char"
                /\ scan_local' = [at EXCEPT !.symbol.type = char_dict[cur],
                                            !.caller = "get_symbol"]
                /\ UNCHANGED tokens
           ELSE IF cur = <<>>
           THEN /\ scan_pc' = "idle"
                /\ scan_local' = [at EXCEPT !.symbol.type = EOF]
                /\ tokens' = IF tokens # <<>>
                                /\ tokens[Len(tokens)].type \in {EOF, NoType}
                             THEN tokens
                             ELSE Append(tokens,
                                    [type |-> EOF, id |-> sym.id,
                                     line_num |-> sym.line_num,
                                     char_num |-> sym.char_num,
                                     string |-> <<>>, start |-> at.start])
           ELSE IF isalpha(cur)
           THEN /\ scan_pc' = "get_name"
                /\ scan_local' = at
                /\ UNCHANGED tokens
           ELSE IF isdigit(cur)
           THEN /\ scan_pc' = "get_number"
                /\ scan_local' = at
                /\ UNCHANGED tokens
           ELSE /\ scan_pc' = "idle"
                /\ scan_local' = at
                /\ tokens' = IF tokens # <<>>
                                /\ tokens[Len(tokens)].type \in {EOF, NoType}
                             THEN tokens
                             ELSE Append(tokens,
                                    [type |-> NoType, id |-> sym.id,
                                     line_num |-> sym.line_num,
                                     char_num |-> sym.char_num,
                                     string |-> <<>>, start |-> at.start])
    /\ UNCHANGED <<scanner, obj_file, names>>
    /\ ScanFrame

\* _get_name stopping at the first digit
_get_name_letters_only ==
    /\ scan_pc = "get_name"
    /\ IF isalpha(scanner.current_char)
       THEN /\ \E char \in Chars :
                  /\ read(char)
                  /\ scanner' = _next_char(scanner, char)
            /\ scan_local' = [scan_local EXCEPT
                                !.output = @ \o scanner.current_char]
            /\ scan_pc' = "get_name"
            /\ UNCHANGED <<tokens, names>>
       ELSE LET name_string == scan_local.output
                r == lookup(names, <<name_string>>)
            IN  /\ names' = r.names
                /\ ReturnSymbol(
                     [scan_local.symbol EXCEPT
                        !.type = IF name_string \in Range(keywords_list)
                                 THEN KEYWORD ELSE NAME,
                        !.id = r.name_ids[1]],
                     name_string)
                /\ UNCHANGED <<scanner, obj_file>>
    /\ ScanFrame

\* _get_name, lines 211-215, one turn of its loop; at its end get_symbol,
\* lines 181-185: KEYWORD or NAME, the ID from names.lookup
_get_name ==
    /\ scan_pc = "get_name"
    /\ IF isalnum(scanner.current_char)
       THEN /\ \E char \in Chars :
                  /\ read(char)
                  /\ scanner' = _next_char(scanner, char)
            /\ scan_local' = [scan_local EXCEPT
                                !.output = @ \o scanner.current_char]
            /\ scan_pc' = "get_name"
            /\ UNCHANGED <<tokens, names>>
       ELSE LET name_string == scan_local.output
                r == lookup(names, <<name_string>>)
            IN  /\ names' = r.names
                /\ ReturnSymbol(
                     [scan_local.symbol EXCEPT
                        !.type = IF name_string \in Range(keywords_list)
                                 THEN KEYWORD ELSE NAME,
                        !.id = r.name_ids[1]],
                     name_string)
                /\ UNCHANGED <<scanner, obj_file>>
    /\ ScanFrame

\* _get_number, lines 227-232, one turn of its loop; at its end get_symbol,
\* lines 188-189
_get_number ==
    /\ scan_pc = "get_number"
    /\ IF isdigit(scanner.current_char)
       THEN /\ \E char \in Chars :
                  /\ read(char)
                  /\ scanner' = _next_char(scanner, char)
            /\ scan_local' = [scan_local EXCEPT
                                !.output = @ \o scanner.current_char]
            /\ scan_pc' = "get_number"
            /\ UNCHANGED tokens
       ELSE /\ ReturnSymbol(
                 [scan_local.symbol EXCEPT !.type = NUMBER,
                                           !.id = int(scan_local.output)],
                 scan_local.output)
            /\ UNCHANGED <<scanner, obj_file>>
    /\ UNCHANGED names
    /\ ScanFrame

\* Scanner.__init__, lines 59-81, on the name table of a new Names()
ScannerInit ==
    /\ scan_pc = "idle"
    /\ scanner = [current_char |-> <<" ">>, hashes |-> 0, line_num |-> 0,
                  char_num |-> 0]
    /\ obj_file = [text |-> <<>>, eof |-> FALSE]
    /\ scan_local = NoScanLocal
    /\ tokens = <<>>
    /\ names = lookup(<<>>, keywords_list).names
    /\ error_code_count = 0
    /\ last_call = NoCall

\* no scanner at work
ScannerParked ==
    /\ scan_pc = "off"
    /\ scanner = [current_char |-> <<" ">>, hashes |-> 0, line_num |-> 0,
                  char_num |-> 0]
    /\ obj_file = [text |-> <<>>, eof |-> FALSE]
    /\ scan_local = NoScanLocal
    /\ tokens = <<>>

ScannerNext ==
    \/ get_symbol \/ _next_valid_char \/ CheckChar
    \/ _next_non_comment_char \/ CommentLoop \/ BlockComment
    \/ SymbolType \/ _get_name \/ _get_number

(***************************************************************************)
(* Definition files given to the parser as lists of symbols, the way       *)
(* test_parse.py gives them to its scanner (scanner.symbols).              *)
(***************************************************************************)
Kw(id) == Symbol(KEYWORD, id)
Nm(id) == Symbol(NAME, id)
Num(n) == Symbol(NUMBER, n)
Punct(type) == Symbol(type, NoneId)

\* the names of the files: a switch, a gate, a D-type, the ports I2 and I3
S1 == I1_ID + 1
N1 == I1_ID + 2
D1 == I1_ID + 3
I2_ID == InputId(2)
I3_ID == InputId(3)
FileNames == {S1, N1, D1}

\* DEVICES: SWITCH S1(0); NAND N1(3);
\* CONNECTIONS: S1 > N1.I1; S1 > N1.I2; S1 > N1.I3;
\* MONITOR N1;
ValidFile ==
    <<Kw(DEVICES_ID), Punct(COLON),
      Kw(SWITCH_ID), Nm(S1), Punct(BRACK_OPEN), Num(0), Punct(BRACK_CLOSE),
      Punct(SEMICOLON),
      Kw(NAND_ID), Nm(N1), Punct(BRACK_OPEN), Num(3), Punct(BRACK_CLOSE),
      Punct(SEMICOLON),
      Kw(CONNECTIONS_ID), Punct(COLON),
      Nm(S1), Punct(GREATER), Nm(N1), Punct(DOT), Nm(I1_ID), Punct(SEMICOLON),
      Nm(S1), Punct(GREATER), Nm(N1), Punct(DOT), Nm(I2_ID), Punct(SEMICOLON),
      Nm(S1), Punct(GREATER), Nm(N1), Punct(DOT), Nm(I3_ID), Punct(SEMICOLON),
      Kw(MONITOR_ID), Nm(N1), Punct(SEMICOLON)>>

\* the same file without its MONITOR statement
ValidNoMonitor == SubSeq(ValidFile, 1, Len(ValidFile) - 3)

\* DEVICES: DTYPE D1; CONNECTIONS: D1.Q > D1.DATA; MONITOR D1.QBAR;
\* (three inputs of D1 are left unconnected)
DtypeFile ==
    <<Kw(DEVICES_ID), Punct(COLON), Kw(DTYPE_ID), Nm(D1), Punct(SEMICOLON),
      Kw(CONNECTIONS_ID), Punct(COLON),
      Nm(D1), Punct(DOT), Kw(Q_ID), Punct(GREATER),
      Nm(D1), Punct(DOT), Kw(DATA_ID), Punct(SEMICOLON),
      Kw(MONITOR_ID), Nm(D1), Punct(DOT), Kw(QBAR_ID), Punct(SEMICOLON)>>

\* the list without the entries at the positions of gone
RECURSIVE Without(_, _)
Without(list, gone) ==
    IF list = <<>> THEN <<>>
    ELSE LET n == Len(list)
             front == Without(SubSeq(list, 1, n - 1), gone)
         IN  IF n \in gone THEN front ELSE Append(front, list[n])

Semicolons(list) == {i \in DOMAIN list : list[i].type = SEMICOLON}

\* a valid file with some of its ';' missing: the file it was, the positions
\* of the missing ';', the file it is
Missing(list) ==
    {[valid |-> list, gone |-> g, file |-> Without(list, g)] :
        g \in SUBSET Semicolons(list)}
MissingSemicolons == Missing(ValidFile) \cup Missing(ValidNoMonitor)

\* a file with one of its symbols missing
OneMissing(list) == {Without(list, {i}) : i \in DOMAIN list}

\* symbols after the end of a complete file
Trailing == {Nm(S1), Punct(SEMICOLON), Kw(MONITOR_ID)}
Trailers == {<<x>> : x \in Trailing}
            \cup {<<x, y>> : x \in Trailing, y \in Trailing}
WithTrailer == {ValidFile \o t : t \in Trailers}

\* the four lists of test_parse_network, lines 53-75
EmptySections ==
    <<Kw(DEVICES_ID), Punct(COLON), Kw(CONNECTIONS_ID), Punct(COLON)>>
TestFiles ==
    {EmptySections,
     <<Kw(DEVICES_ID)>>,
     EmptySections \o <<Kw(MONITOR_ID), Punct(SEMICOLON)>>,
     EmptySections \o <<Kw(MONITOR_ID)>>}

\* a MONITOR keyword with no device name after it, before ';' and at the end
\* of the file
EmptyMonitor(list) ==
    {list \o <<Kw(MONITOR_ID), Punct(SEMICOLON)>>, list \o <<Kw(MONITOR_ID)>>}

\* symbols that start neither a device instantiation nor the connections
Strays == {Punct(COMMA), Punct(SEMICOLON), Nm(S1)}
StrayFiles ==
    {<<Kw(DEVICES_ID), Punct(COLON)>> \o t \o
        <<Kw(CONNECTIONS_ID), Punct(COLON)>> :
        t \in UNION {[1..k -> Strays] : k \in 1..MaxStrays}}

\* the start of a valid file followed by any symbols
Tokens == Alphabet \cup {Nm(S1), Nm(N1)}
Prefixes(list) == {SubSeq(list, 1, k) : k \in 0..Len(list)}
Streams ==
    {p \o t : p \in Prefixes(ValidFile),
              t \in UNION {[1..k -> Tokens] : k \in 0..MaxTail}}

EditedFiles ==
    {m.file : m \in MissingSemicolons}
    \cup OneMissing(ValidFile) \cup OneMissing(DtypeFile)
    \cup {ValidNoMonitor, DtypeFile} \cup WithTrailer \cup TestFiles
    \cup EmptyMonitor(ValidNoMonitor) \cup EmptyMonitor(EmptySections)
    \cup StrayFiles

ScenarioFiles == EditedFiles \cup Streams

\* test_parse.py, new_parser: a parser on a scanner that holds one of the
\* lists, and new devices, network and monitors
ScenarioInit ==
    /\ pc = "start"
    /\ stack = <<>>
    /\ symbol = NoSymbol
    /\ \E f \in ScenarioFiles :
          source = [free |-> FALSE, symbols |-> f, file |-> f,
                    errs |-> <<>>, count |-> 0, mode |-> "reading"]
    /\ error_count = 0
    /\ suppressed_errors = <<>>
    /\ last_err = "NO_ERROR"
    /\ edi_shown = 0
    /\ local = NoLocal
    /\ result = FALSE
    /\ ui_started = FALSE
    /\ cli = NoCommand
    /\ devices = [i \in FileNames |-> NoDevice]
    /\ connections = {}
    /\ monitors_dictionary = <<>>
    /\ calls = [make_device |-> 0, make_connection |-> 0, make_monitor |-> 0,
                check_network |-> 0, failed |-> 0]
    /\ GuiParked
    /\ NamesInit
    /\ ScannerParked

(***************************************************************************)
(* The command line (logsim.py main, Scanner._open_file).  A word of the   *)
(* command line is the sequence of its parts between dots.                 *)
(***************************************************************************)
DashWords == {<<"-h">>, <<"-c">>, <<"-x">>}
PathWords == {<<"a", "txt">>, <<"a", "doc">>, <<"gone", "txt">>}
Words == DashWords \cup PathWords

\* the files that can be opened
Existing == {<<"a", "txt">>, <<"a", "doc">>}

ArgLists == UNION {[1..k -> Words] : k \in 0..MaxArgs}

\* getopt.getopt(args, "hc:"): options are read up to the first word that
\* is not one; -c takes the next word as its value; an unknown option or a
\* -c without a value raises GetoptError
RECURSIVE getopt_from(_, _)
getopt_from(args, opts) ==
    IF args = <<>> \/ Head(args) \notin DashWords
    THEN [error |-> FALSE, options |-> opts, arguments |-> args]
    ELSE IF Head(args) = <<"-h">>
    THEN getopt_from(Tail(args),
                     Append(opts, [option |-> "-h", path |-> <<>>]))
    ELSE IF Head(args) = <<"-c">> /\ Len(args) >= 2
    THEN getopt_from(SubSeq(args, 3, Len(args)),
                     Append(opts, [option |-> "-c", path |-> args[2]]))
    ELSE [error |-> TRUE, options |-> <<>>, arguments |-> <<>>]

getopt(args) == getopt_from(args, <<>>)

\* sys.exit(arg): the process ends; its status is 0 when arg is None
sys_exit(c, arg, cause) ==
    [c EXCEPT !.pc = "exited",
              !.status = IF arg = NoneId THEN 0 ELSE arg,
              !.cause = cause]

\* main returns and the interpreter ends the process; an exception that
\* nothing catches ends it with the traceback and status 1
ProcessEnd(c) ==
    IF c.cause = "NameError"
    THEN [c EXCEPT !.pc = "exited", !.status = 1]
    ELSE [c EXCEPT !.pc = "exited", !.status = 0, !.cause = "end"]

CliFrame ==
    UNCHANGED <<stack, symbol, source, error_count, suppressed_errors,
                last_err, edi_shown, local, result, ui_started, netVars,
                guiVars, namesVars, scannerVars>>

\* logsim.py 41-46
CliGetopt ==
    /\ cli.pc = "getopt"
    /\ LET g == getopt(cli.arg_list)
       IN  cli' = IF g.error
                  THEN sys_exit(cli, NoneId, "getopt_error")
                  ELSE [cli EXCEPT !.pc = "options", !.options = g.options,
                                   !.arguments = g.arguments, !.i = 1]
    /\ pc' = pc
    /\ CliFrame

\* logsim.py 58-64: one turn of the loop over the options
CliOption ==
    /\ cli.pc = "options"
    /\ cli.i <= Len(cli.options)
    /\ LET o == cli.options[cli.i]
       IN  cli' = IF o.option = "-h"
                  THEN sys_exit(cli, NoneId, "help")
                  ELSE [cli EXCEPT !.pc = "open_file", !.path = o.path,
                                   !.i = @ + 1]
    /\ pc' = pc
    /\ CliFrame

\* logsim.py 82-90: after the loop
CliNoOption ==
    /\ cli.pc = "options"
    /\ cli.i > Len(cli.options)
    /\ cli' = IF cli.options # <<>>
              THEN ProcessEnd(cli)
              ELSE IF Len(cli.arguments) # 1
              THEN sys_exit(cli, NoneId, "arguments")
              ELSE [cli EXCEPT !.pc = "open_file", !.path = cli.arguments[1]]
    /\ pc' = pc
    /\ CliFrame

\* Scanner._open_file, scanner.py 83-94, and Parser.__init__: the file
\* holds any of the lists of symbols
_open_file ==
    /\ cli.pc = "open_file"
    /\ IF cli.path[Len(cli.path)] # "txt"
       THEN /\ cli' = sys_exit(cli, NoneId, "extension")
            /\ UNCHANGED <<pc, symbol, source, error_count, suppressed_errors>>
       ELSE IF cli.path \notin Existing
       THEN /\ cli' = sys_exit(cli, NoneId, "open")
            /\ UNCHANGED <<pc, symbol, source, error_count, suppressed_errors>>
       ELSE /\ cli' = [cli EXCEPT !.pc = "parse"]
            /\ pc' = "start"
            /\ symbol' = NoSymbol
            /\ \E f \in EditedFiles :
                  source' = [free |-> FALSE, symbols |-> f, file |-> f,
                             errs |-> <<>>, count |-> 0, mode |-> "reading"]
            /\ error_count' = 0
            /\ suppressed_errors' = <<>>
    /\ UNCHANGED <<stack, last_err, edi_shown, local, result, ui_started,
                   netVars, guiVars, namesVars, scannerVars>>

\* logsim.py 66-69, 92-109: the interface has been left, was not started,
\* or could not be made
CliParsed ==
    /\ cli.pc = "parse"
    /\ pc = "exit"
    /\ pc' = "idle"
    /\ cli' = IF cli.options # <<>>
              THEN [cli EXCEPT !.pc = "options"]
              ELSE ProcessEnd(cli)
    /\ CliFrame

CliNext ==
    \/ CliGetopt \/ CliOption \/ CliNoOption \/ _open_file \/ CliParsed
    \/ ParserNext

\* logsim.py main(sys.argv[1:]) on any command line
CliInit ==
    /\ pc = "idle"
    /\ stack = <<>>
    /\ symbol = NoSymbol
    /\ source = [free |-> FALSE, symbols |-> <<>>, file |-> <<>>,
                 errs |-> <<>>, count |-> 0, mode |-> "reading"]
    /\ error_count = 0
    /\ suppressed_errors = <<>>
    /\ last_err = "NO_ERROR"
    /\ edi_shown = 0
    /\ local = NoLocal
    /\ result = FALSE
    /\ ui_started = FALSE
    /\ \E a \in ArgLists : cli = [NoCommand EXCEPT !.pc = "getopt",
                                                  !.arg_list = a]
    /\ devices = [i \in FileNames |-> NoDevice]
    /\ connections = {}
    /\ monitors_dictionary = <<>>
    /\ calls = [make_device |-> 0, make_connection |-> 0, make_monitor |-> 0,
                check_network |-> 0, failed |-> 0]
    /\ GuiParked
    /\ NamesInit
    /\ ScannerParked

(***************************************************************************)
(* Specifications.                                                         *)
(***************************************************************************)
\* a parser on a new network, the driver not running, a new name table
ParseInit ==
    ParserInit /\ NetInit /\ GuiParked /\ NamesInit /\ ScannerParked

\* the driver window opened on an accepted circuit
DriverInit == ParserInit /\ GuiInit /\ NamesInit /\ ScannerParked

\* a scanner opened on a definition file, with the name table it filled
ScanInit == ParserInit /\ NetInit /\ GuiParked /\ ScannerInit

\* one parse of any definition file, then the launcher
ParserSpec == ParseInit /\ [][ParserNext]_vars

\* the graphical driver on an accepted circuit
GuiSpec == DriverInit /\ [][GuiNext]_vars

\* any sequence of calls on a new name table
NamesSpec == ParseInit /\ [][NamesNext]_vars

\* parses of the definition files listed above
ScenarioSpec == ScenarioInit /\ [][ParserNext]_vars

\* the same parses, where a step that can be taken is taken
ScenarioLive == ScenarioSpec /\ WF_vars(ParserNext)

\* the program started from the command line
CliSpec == CliInit /\ [][CliNext]_vars

\* repeated get_symbol calls on any definition file
ScannerSpec == ScanInit /\ [][ScannerNext]_vars

(***************************************************************************)
(* Properties.                                                             *)
(***************************************************************************)
Ended == pc \in {"done", "exit"}

\* C1: parse_network returns True exactly when error_count is 0 at the end
\* of the parse, and the interface is started only after it returned True.
C1_ResultIffNoErrors ==
    /\ Ended => (result <=> error_count = 0)
    /\ ui_started => (pc = "exit" /\ result /\ error_count = 0)
    /\ (pc = "exit" /\ error_count > 0) => ~ui_started

C1_Witness ==
    /\ pc = "exit"
    /\ ui_started
    /\ devices[I1_ID] # NoDevice

\* C2: once an error has been counted the parse makes no further call to
\* make_device, make_connection or make_monitor and leaves what was built as
\* it is, and it still reads on to the end of the file (or to the symbol
\* that EXPECTED_EOF is reported at).
C2_SemanticSuppression ==
    /\ [][error_count > 0 =>
            /\ UNCHANGED <<devices, connections, monitors_dictionary>>
            /\ calls'.make_device = calls.make_device
            /\ calls'.make_connection = calls.make_connection
            /\ calls'.make_monitor = calls.make_monitor]_vars
    /\ [](Ended => (symbol.type = EOF \/ last_err = "EXPECTED_EOF"))

\* a well-formed connection read after an error: its call is suppressed
C2_Witness ==
    /\ pc = "make_connection"
    /\ error_count > 0
    /\ last_err = "INPUT_CONNECTED"
    /\ connections # {}

\* C3: check_network is called only by the end of a parse that counted no
\* error; when it answers false exactly one NETWORK_INPUTS_UNCONNECTED error
\* is counted, the count is 1 and the parse fails; after earlier errors no
\* such error is added.
C3_FinalCheck ==
    /\ ~Ended => (calls.check_network = 0
                  /\ last_err # "NETWORK_INPUTS_UNCONNECTED")
    /\ Ended =>
        /\ calls.check_network \in {0, 1}
        /\ calls.check_network = 1
              <=> (error_count = 0 \/ last_err = "NETWORK_INPUTS_UNCONNECTED")
        /\ last_err = "NETWORK_INPUTS_UNCONNECTED"
              <=> (calls.check_network = 1
                   /\ ~check_network(devices, connections))
        /\ last_err = "NETWORK_INPUTS_UNCONNECTED"
              => (error_count = 1 /\ ~result)

C3_Witness ==
    /\ pc = "done"
    /\ last_err = "NETWORK_INPUTS_UNCONNECTED"
    /\ error_count = 1
    /\ devices[I1_ID].kind = "NAND"

\* a reference to an existing output of an existing device
ValidRef(r) ==
    /\ get_device(devices, r.dev) # NoDevice
    /\ r.port \in OutputPorts(get_device(devices, r.dev))

\* C4: when parse_network returns True every make_device, make_connection
\* and make_monitor call of the parse answered NO_ERROR, check_network
\* answered true, and every input slot holds a valid output reference.
C4_NetworkInvariant ==
    (Ended /\ result) =>
        /\ calls.failed = 0
        /\ calls.check_network = 1
        /\ check_network(devices, connections)
        /\ \A s \in AllSlots(devices) :
              /\ Cardinality({c \in connections : c.slot = s}) = 1
              /\ \A c \in connections : c.slot = s => ValidRef(c.ref)

C4_Witness ==
    /\ pc = "exit"
    /\ result
    /\ connections # {}
    /\ DOMAIN monitors_dictionary # {}

\* the symbol does not fit the grammar at the place the parser is at
SyntacticFailure ==
    \/ pc = "expect_devices" /\ ~_symbol_is_keyword({DEVICES_ID})
    \/ pc \in {"expect_colon1", "expect_colon2"} /\ symbol.type # COLON
    \/ pc = "device_loop"
          /\ ~_symbol_is_keyword(_device_type_keywords_list \cup {CONNECTIONS_ID})
    \/ pc = "one_or_more_loop" /\ symbol.type \notin {COMMA, SEMICOLON}
    \/ pc \in {"device_name_init", "output_identifier", "input_identifier"}
          /\ symbol.type # NAME
    \/ pc = "dni_number" /\ symbol.type # NUMBER
    \/ pc = "dni_close" /\ symbol.type # BRACK_CLOSE
    \/ pc = "connection_loop"
          /\ ~_symbol_is_keyword({MONITOR_ID})
          /\ symbol.type \notin {EOF, NAME}
    \/ pc = "oi_port" /\ ~_symbol_is_keyword(output_identifier_keywords_list)
    \/ pc = "connection_greater" /\ symbol.type # GREATER
    \/ pc = "ii_device"
          /\ ~(get_device(devices, local.device_id) = NoDevice /\ error_count = 0)
          /\ symbol.type # DOT
    \/ pc = "ii_port"
          /\ symbol.type # NAME
          /\ ~_symbol_is_keyword(input_identifier_keywords_list)
    \/ pc \in {"connection_end"} /\ symbol.type # SEMICOLON
    \/ pc = "connection_end_next" /\ symbol.type = EOF
    \/ pc = "check_eof" /\ symbol.type # EOF

\* the failed checks that name ';' as their stopping symbol
FailureWithStop ==
    /\ SyntacticFailure
    /\ \/ pc \in {"device_loop", "one_or_more_loop"} /\ symbol.type # EOF
       \/ pc \in {"connection_loop", "connection_greater", "ii_device",
                  "connection_end"}

\* C5 as stated: every syntactic failure counts exactly one error and then
\* skips to the stopping symbol.
C5_OneErrorPerFailure ==
    [][SyntacticFailure => error_count' = error_count + 1]_vars

\* C5, amended: a failed check counts one error, two when it is the device
\* name of an output or input identifier that is missing; a check that
\* names a stopping symbol then skips, without counting, to the next ';' or
\* EOF and parsing resumes there, unless the scanner ends the process on
\* the way; the other checks read no symbol themselves and leave any
\* skipping to the rule that called them.
C5_ErrorRecovery ==
    /\ [][SyntacticFailure =>
            error_count' = error_count +
                (IF pc \in {"output_identifier", "input_identifier"}
                 THEN 2 ELSE 1)]_vars
    /\ [][FailureWithStop =>
            (pc' = "skip" /\ local'.skip_to = SEMICOLON)]_vars
    /\ [][(SyntacticFailure /\ ~FailureWithStop) => symbol' = symbol]_vars
    /\ [][pc = "skip" =>
            /\ error_count' = error_count
            /\ pc' \notin {"skip", "scanner_exit"} =>
                 (symbol.type \in {SEMICOLON, EOF} /\ symbol' = symbol)]_vars

C5_Witness ==
    /\ pc = "connection_end"
    /\ error_count = 2
    /\ last_err = "DEVICE_ABSENT"
    /\ symbol.type = SEMICOLON
    /\ devices[I1_ID] # NoDevice

Lengths == {Len(monitors_dictionary[k]) : k \in DOMAIN monitors_dictionary}

\* C6: while the monitor set is unchanged, after run(n) and any number of
\* continue(m) every monitored sequence has length n + m1 + ... + mk; run
\* starts its steps on cleared sequences.
C6_MonitorLength ==
    /\ (gui_pc = "idle" /\ history.requested >= 0 /\ ~history.changed)
          => Lengths \subseteq {history.requested}
    /\ gui_pc = "run_loop" => Lengths \subseteq {loop_i}

C6_Witness ==
    /\ gui_pc = "idle"
    /\ history.requested > MaxSpin
    /\ ~history.changed
    /\ Cardinality(DOMAIN monitors_dictionary) = 2

\* C7 as stated: all monitored sequences have the same length in every
\* state.
C7_AlwaysParallel == Cardinality(Lengths) <= 1

\* C7, amended: the sequences have the same length, the number of samples
\* recorded since they were last cleared, as long as no monitor has been
\* added since then; a monitor added later is never longer than that.
C7_ParallelUnlessAdded ==
    /\ ~history.added => Lengths \subseteq {history.recorded}
    /\ \A n \in Lengths : n <= history.recorded

C7_Witness ==
    /\ gui_pc = "idle"
    /\ ~history.added
    /\ history.recorded > MaxSpin
    /\ Cardinality(DOMAIN monitors_dictionary) = 2
    /\ sig_not_mons = <<>>

\* C8: once a network step of a run or continue has returned false the
\* oscillation indicator is up and the operation makes no further step.
C8_StopOnOscillation ==
    /\ [](osc_here => canvas.oscillating)
    /\ [][(gui_pc \in {"run_loop", "continue_loop"} /\ osc_here)
             => history'.executed = history.executed]_vars

\* C9: every execute_network is followed by one record_signals before the
\* next execute_network, oscillating or not; between operations as many
\* samples have been recorded as steps executed.
C9_StepRecordLockstep ==
    IF gui_pc \in {"run_record", "continue_record"}
    THEN history.executed = history.recorded + 1
    ELSE history.executed = history.recorded

C9_Witness ==
    /\ gui_pc = "idle"
    /\ osc_here
    /\ history.recorded >= 2
    /\ DOMAIN monitors_dictionary # {}

\* C10: get_name_string gives back every string of the list at the ID
\* lookup returned for it, and lookup gives back every ID it ever returned
\* when asked for the string of that ID.
C10_RoundTrip ==
    /\ last_call.op = "lookup" =>
          \A k \in DOMAIN last_call.arg :
             LET r == get_name_string(names, last_call.result[k])
             IN  r.raised = "" /\ ~r.none /\ r.value = last_call.arg[k]
    /\ \A i \in last_call.returned :
          LET r == get_name_string(names, i)
          IN  /\ ~r.none
              /\ lookup(names, <<r.value>>).name_ids = <<i>>
              /\ lookup(names, <<r.value>>).names = names

C10_Witness ==
    /\ last_call.op = "lookup"
    /\ Len(last_call.arg) = 2
    /\ last_call.result = <<1, 0>>
    /\ Len(names) = MaxTable

\* C11: the table is append-only: over every call each entry keeps its
\* place, each ID its string and each string its ID.
C11_Stability ==
    [][\A i \in DOMAIN names :
          /\ i \in DOMAIN names'
          /\ names'[i] = names[i]
          /\ get_name_string(names', i - 1) = get_name_string(names, i - 1)
          /\ lookup(names', <<names[i]>>).name_ids
                = lookup(names, <<names[i]>>).name_ids]_vars

C11_Witness ==
    /\ last_call.op = "lookup"
    /\ last_call.result = <<0>>
    /\ Len(names) = 2
    /\ error_code_count > 0

\* C12: the k-th distinct string ever passed to lookup has ID k-1; the IDs
\* in use are exactly 0..size-1 and no two strings share one.
C12_DenseFirstSeen ==
    /\ Len(names) = Len(last_call.seen)
    /\ \A k \in DOMAIN last_call.seen :
          /\ lookup(names, <<last_call.seen[k]>>).name_ids = <<k - 1>>
          /\ get_name_string(names, k - 1).value = last_call.seen[k]
    /\ last_call.returned = 0 .. (Len(names) - 1)
    /\ \A i, j \in DOMAIN names : names[i] = names[j] => i = j
    /\ last_call.op = "lookup" =>
          \A k \in DOMAIN last_call.arg :
             last_call.result[k] = index(last_call.seen, last_call.arg[k])

C12_Witness ==
    /\ last_call.op = "lookup"
    /\ Len(last_call.arg) = 2
    /\ last_call.arg[1] = last_call.arg[2]
    /\ last_call.result = <<1, 1>>
    /\ Len(names) = 2

\* C13: every unique_error_codes(n) call with an integer n returns exactly
\* n codes, all of them greater than every code returned before (so disjoint
\* from the earlier ranges and never recycled).
C13_FreshCodes ==
    [][last_call'.op = "unique_error_codes" =>
          /\ Cardinality(last_call'.result) = last_call'.arg[1]
          /\ last_call'.result \cap last_call.codes = {}
          /\ \A c \in last_call'.result :
                \A e \in last_call.codes : c > e]_vars

\* C14: query raises the bad-name error exactly for a string that is not
\* alphanumeric or is all digits; otherwise it answers the ID of a string
\* in the table and None for any other; the table is never changed.
C14_Query ==
    /\ [](last_call.op = "query" =>
            LET s == last_call.arg[1]
                bad == \/ s = <<>>
                       \/ \E i \in DOMAIN s : s[i] \notin Letters \cup Digits
                       \/ \A i \in DOMAIN s : s[i] \in Digits
            IN  /\ (last_call.raised = "SyntaxError") <=> bad
                /\ ~bad =>
                     /\ last_call.raised = ""
                     /\ (\E i \in DOMAIN names : names[i] = s)
                           => \E i \in DOMAIN names :
                                 names[i] = s /\ last_call.result = <<i - 1>>
                     /\ (\A i \in DOMAIN names : names[i] # s)
                           => last_call.result = <<>>)
    /\ [][last_call'.op = "query" => names' = names]_vars

C14_Witness ==
    /\ last_call.op = "query"
    /\ last_call.raised = "SyntaxError"
    /\ \E i \in DOMAIN names : names[i] = last_call.arg[1]

\* C15 as stated: get_name_string answers the string for an ID of the table
\* and None, without raising, for every other integer.
C15_AbsentOutOfRange ==
    last_call.op = "get_name_string" =>
        LET id == last_call.arg[1]
        IN  /\ last_call.raised = ""
            /\ IF 0 <= id /\ id < Len(names)
               THEN last_call.result = <<names[id + 1]>>
               ELSE last_call.result = <<>>

\* C15, amended: get_name_string answers the string for an ID of the table,
\* None without raising for an ID at or above the table size, and raises
\* ValueError for a negative ID.
C15_AbsentOrValueError ==
    last_call.op = "get_name_string" =>
        LET id == last_call.arg[1]
        IN  /\ id < 0 => (last_call.raised = "ValueError"
                          /\ last_call.result = <<>>)
            /\ (0 <= id /\ id < Len(names)) =>
                  (last_call.raised = ""
                   /\ last_call.result = <<names[id + 1]>>)
            /\ id >= Len(names) => (last_call.raised = ""
                                    /\ last_call.result = <<>>)

C15_Witness ==
    /\ last_call.op = "get_name_string"
    /\ last_call.arg = <<-1>>
    /\ last_call.raised = "ValueError"
    /\ Len(names) > 0

\* C16: no entry of the table is the empty string, every entry is
\* alphanumeric and starts with a letter.
C16_WellFormed ==
    \A i \in DOMAIN names :
       /\ names[i] # <<>>
       /\ \A k \in DOMAIN names[i] : names[i][k] \in Letters \cup Digits
       /\ names[i][1] \in Letters

(***************************************************************************)
(* Scanner properties, over the text read so far (obj_file.text) and the  *)
(* symbols get_symbol has returned (tokens).                              *)
(***************************************************************************)
\* get_symbol has returned EOF: the whole file is scanned
Scanned == tokens # <<>> /\ tokens[Len(tokens)].type = EOF

\* the last position of the maximal run of characters of class from i on
RECURSIVE RunEnd(_, _, _)
RunEnd(text, i, class) ==
    IF i + 1 <= Len(text) /\ text[i + 1] \in class
    THEN RunEnd(text, i + 1, class)
    ELSE i

Run(text, i, class) == SubSeq(text, i, RunEnd(text, i, class))

\* the tokens of a text without comments, from position i on, as the
\* language defines them: <<kind, string>>, ended by EOF
RECURSIVE Tokenize(_, _)
Tokenize(text, i) ==
    IF i > Len(text) THEN << <<EOF, <<>>>> >>
    ELSE IF text[i] \in {" ", "\n"} THEN Tokenize(text, i + 1)
    ELSE IF <<text[i]>> \in DOMAIN char_dict
    THEN << <<char_dict[<<text[i]>>], <<>>>> >> \o Tokenize(text, i + 1)
    ELSE IF text[i] \in Letters
    THEN LET str == Run(text, i, Letters \cup Digits)
         IN  << <<IF str \in Range(keywords_list) THEN KEYWORD ELSE NAME,
                  str>> >> \o Tokenize(text, i + Len(str))
    ELSE IF text[i] \in Digits
    THEN LET str == Run(text, i, Digits)
         IN  << <<NUMBER, str>> >> \o Tokenize(text, i + Len(str))
    ELSE << <<NoType, <<>>>> >>

Kinds(toks) == [i \in DOMAIN toks |-> <<toks[i].type, toks[i].string>>]

\* the text with every comment replaced by blanks: '###' through the next
\* '###', a single '#' through the end of its line
RECURSIVE Strip(_, _, _)
Strip(text, i, mode) ==
    IF i > Len(text) THEN <<>>
    ELSE LET three == i + 2 <= Len(text)
                      /\ SubSeq(text, i, i + 2) = <<"#", "#", "#">>
         IN  IF mode = "code"
             THEN IF three
                  THEN <<" ", " ", " ">> \o Strip(text, i + 3, "block")
                  ELSE IF text[i] = "#"
                  THEN <<" ">> \o Strip(text, i + 1, "line")
                  ELSE <<text[i]>> \o Strip(text, i + 1, "code")
             ELSE IF mode = "line"
             THEN IF text[i] = "\n"
                  THEN <<"\n">> \o Strip(text, i + 1, "code")
                  ELSE <<" ">> \o Strip(text, i + 1, "line")
             ELSE IF three
                  THEN <<" ", " ", " ">> \o Strip(text, i + 3, "code")
                  ELSE <<" ">> \o Strip(text, i + 1, "block")

\* C17: an invalid character is fatal wherever it stands: get_symbol returns
\* no symbol for it, so every symbol returned has a type.
C17_InvalidFatal ==
    /\ \A i \in DOMAIN tokens : tokens[i].type # NoType
    /\ scan_pc = "symbol_type" => scanner.current_char # <<"?">>

\* C18: comments produce no tokens: once a file (without invalid characters)
\* is scanned, the (kind, string) sequence of its tokens is that of the file
\* with every comment replaced by blanks; equal strings in equal order have
\* equal name-table IDs.
C18_CommentsNoTokens ==
    (Scanned /\ "?" \notin Range(obj_file.text)) =>
        Kinds(tokens) = Tokenize(Strip(obj_file.text, 1, "code"), 1)

\* C19: a NAME or KEYWORD token is the maximal run of letters and digits from
\* its first character, a letter; it is a KEYWORD exactly when the string is
\* a reserved keyword; its id is the name-table ID of the string.  A NUMBER
\* token is the maximal run of digits, its id the decimal value.  A scanned
\* file without comments and invalid characters gives exactly one token per
\* run.
C19_Classification ==
    /\ \A i \in DOMAIN tokens :
          LET t == tokens[i]
              text == obj_file.text
          IN  /\ t.type \in {KEYWORD, NAME} =>
                    /\ text[t.start] \in Letters
                    /\ t.string = Run(text, t.start, Letters \cup Digits)
                    /\ (t.type = KEYWORD <=> t.string \in Range(keywords_list))
                    /\ t.id + 1 \in DOMAIN names
                    /\ names[t.id + 1] = t.string
                    /\ t.id = index(names, t.string)
              /\ t.type = NUMBER =>
                    /\ t.string = Run(text, t.start, Digits)
                    /\ t.id = int(t.string)
    /\ (Scanned /\ Range(obj_file.text) \cap {"#", "?"} = {}) =>
          Kinds(tokens) = Tokenize(obj_file.text, 1)

\* "Q q 1" is scanned: a KEYWORD, a new NAME, a NUMBER
C19_Witness ==
    /\ Scanned
    /\ Kinds(tokens) = << <<KEYWORD, <<"Q">>>>, <<NAME, <<"q">>>>,
                          <<NUMBER, <<"1">>>>, <<EOF, <<>>>> >>
    /\ tokens[2].id = Len(keywords_list)

\* C20: every symbol returned records as line_num the number of newlines
\* before its first character and as char_num the one-based index of that
\* character in its line; EOF stands one past the last character.
C20_Positions ==
    \A i \in DOMAIN tokens :
       LET t == tokens[i]
           text == obj_file.text
           before == {k \in 1..(t.start - 1) : text[k] = "\n"}
           line_start == IF before = {} THEN 0
                         ELSE CHOOSE k \in before : \A j \in before : j <= k
       IN  /\ t.line_num = Cardinality(before)
           /\ t.char_num = t.start - line_start


(***************************************************************************)
(* Properties of parses of given files.                                    *)
(***************************************************************************)
\* the kinds and the symbols of the errors displayed so far
ErrKinds == [i \in DOMAIN source.errs |-> source.errs[i].err]
ErrSymbols == [i \in DOMAIN source.errs |-> source.errs[i].symbol]

\* the symbol a list holds at a position, EOF past its end
Found(list, i) == IF i \in DOMAIN list THEN list[i] ELSE EndOfFile

Min(set) == CHOOSE x \in set : \A y \in set : x <= y

\* the file read is this valid file with these ';' missing
Lacks(m) == m.gone # {} /\ source.file = m.file

\* ValidNoMonitor without the ';' after the switch, after the first
\* connection and after the last connection
ThreeMissing ==
    CHOOSE m \in Missing(ValidNoMonitor) :
        \E a, b, c \in Semicolons(ValidNoMonitor) :
            /\ m.gone = {a, b, c}
            /\ Found(ValidNoMonitor, a + 1) = Kw(NAND_ID)
            /\ Found(ValidNoMonitor, b + 1) = Nm(S1)
            /\ Found(ValidNoMonitor, b - 1) = Nm(I1_ID)
            /\ c = Len(ValidNoMonitor)

\* C21 as stated: a file that is valid except for three missing ';' counts
\* exactly 4 errors and parse_network returns False.
C21_ThreeMissingFourErrors ==
    \A m \in MissingSemicolons :
        (pc = "exit" /\ Lacks(m) /\ Cardinality(m.gone) = 3)
            => (error_count = 4 /\ ~result)

\* C21: a file that is valid except for missing ';' makes parse_network
\* return False; the first error displayed is at the symbol found where the
\* first missing ';' was expected (EXPECTED_SYMBOL, or UNEXPECTED_EOF when
\* the ';' that ends the MONITOR list is the first one missing); the count
\* is not fixed by the number of missing ';'.  It is 4 (EXPECTED_SYMBOL at
\* NAND, at the name that starts the second connection and at EOF, then
\* UNEXPECTED_EOF at EOF) for the file with no MONITOR statement that lacks
\* the ';' after the first device, after the first connection and after the
\* last connection.
C21_MissingSemicolons ==
    \A m \in MissingSemicolons :
        (pc = "exit" /\ Lacks(m)) =>
            /\ ~result
            /\ error_count >= 1
            /\ source.errs # <<>>
            /\ ErrSymbols[1] = Found(m.valid, Min(m.gone) + 1)
            /\ ErrKinds[1] \in {"EXPECTED_SYMBOL", "UNEXPECTED_EOF"}
            /\ (ErrKinds[1] = "UNEXPECTED_EOF") <=>
                   (Min(m.gone) = Len(m.valid)
                        /\ m.valid[Len(m.valid) - 2] = Kw(MONITOR_ID))
            /\ m = ThreeMissing =>
                   /\ error_count = 4
                   /\ ErrKinds = <<"EXPECTED_SYMBOL", "EXPECTED_SYMBOL",
                                   "EXPECTED_SYMBOL", "UNEXPECTED_EOF">>
                   /\ ErrSymbols = <<Kw(NAND_ID), Nm(S1), EndOfFile, EndOfFile>>

C21_Witness ==
    /\ pc = "exit"
    /\ Lacks(ThreeMissing)
    /\ error_count = 4
    /\ ~result

\* the error kinds of the parser that are syntactic (parse.py 87-91)
SyntacticErrors ==
    {"EXPECTED_SYMBOL", "EXPECTED_KEYWORD", "EXPECTED_DEVICE_INSTANTIATION",
     "UNEXPECTED_EOF", "EXPECTED_EOF", "EXPECTED_CONNECTION",
     "EXPECTED_NAME_PORT_INPUT"}

\* a step that counts an error when one had been counted before it
CountsAfterFirst ==
    /\ error_count' > error_count
    /\ error_count > 0 \/ error_count' > error_count + 1

\* C22 as stated: once an error has been counted, only syntactic errors are
\* counted or displayed.
C22_OnlySyntacticAfterFirst ==
    /\ [][CountsAfterFirst => last_err' \in SyntacticErrors]_vars
    /\ [](\A i \in 2..Len(source.errs) : ErrKinds[i] \in SyntacticErrors)

\* C22, amended: once an error has been counted, the only semantic error
\* that is counted or displayed is the DEVICE_ABSENT that directly follows
\* the EXPECTED_SYMBOL of a missing device name in an output or input
\* identifier, at the same symbol; every other error after the first is
\* syntactic.
C22_SemanticAfterFirst ==
    /\ [][CountsAfterFirst =>
            \/ last_err' \in SyntacticErrors
            \/ /\ last_err' = "DEVICE_ABSENT"
               /\ pc \in {"output_identifier", "input_identifier"}
               /\ symbol.type # NAME
               /\ error_count' = error_count + 2]_vars
    /\ [](\A i \in 2..Len(source.errs) :
            \/ ErrKinds[i] \in SyntacticErrors
            \/ /\ ErrKinds[i] = "DEVICE_ABSENT"
               /\ ErrKinds[i - 1] = "EXPECTED_SYMBOL"
               /\ ErrSymbols[i] = ErrSymbols[i - 1]
               /\ ErrSymbols[i].type # NAME)

\* DEVICES: CONNECTIONS: MONITOR and the end of the file: the missing name
\* counts EXPECTED_SYMBOL and DEVICE_ABSENT, the end UNEXPECTED_EOF
C22_Witness ==
    /\ pc = "exit"
    /\ source.file = EmptySections \o <<Kw(MONITOR_ID)>>
    /\ ErrKinds = <<"EXPECTED_SYMBOL", "DEVICE_ABSENT", "UNEXPECTED_EOF">>
    /\ error_count = 3

\* the occurrences of a kind among the errors displayed
Shown(kind) == Cardinality({i \in DOMAIN source.errs : ErrKinds[i] = kind})

\* the device loop is at a symbol that starts neither a device nor the
\* connections (parse.py 178-190)
BadInstantiation ==
    /\ pc = "device_loop"
    /\ symbol.type # EOF
    /\ ~_symbol_is_keyword(_device_type_keywords_list \cup {CONNECTIONS_ID})

\* DEVICES: followed by MaxStrays ';' and CONNECTIONS:
AllStray ==
    <<Kw(DEVICES_ID), Punct(COLON)>> \o [i \in 1..MaxStrays |-> Punct(SEMICOLON)]
        \o <<Kw(CONNECTIONS_ID), Punct(COLON)>>

\* C23: EXPECTED_DEVICE_INSTANTIATION is displayed at most once by a parser,
\* at its first occurrence, and every occurrence, displayed or suppressed,
\* adds one to error_count.
C23_DisplayedOnceCountedAlways ==
    /\ [](edi_shown <= 1 /\ Shown("EXPECTED_DEVICE_INSTANTIATION") <= 1)
    /\ [](edi_shown = 1 <=>
            "EXPECTED_DEVICE_INSTANTIATION" \in Range(suppressed_errors))
    /\ [][BadInstantiation =>
            /\ error_count' = error_count + 1
            /\ last_err' = "EXPECTED_DEVICE_INSTANTIATION"
            /\ edi_shown' = 1
            /\ source'.errs =
                 IF edi_shown = 0
                 THEN Append(source.errs,
                             [symbol |-> symbol,
                              err |-> "EXPECTED_DEVICE_INSTANTIATION"])
                 ELSE source.errs]_vars

\* MaxStrays occurrences: all are counted, the first one is displayed
C23_Witness ==
    /\ pc = "exit"
    /\ source.file = AllStray
    /\ error_count = MaxStrays
    /\ ErrKinds = <<"EXPECTED_DEVICE_INSTANTIATION">>
    /\ edi_shown = 1

\* the file read is ValidFile and then these symbols
Trailed(t) == source.file = ValidFile \o t

\* C24: symbols after the ';' that ends the MONITOR statement count exactly
\* one EXPECTED_EOF, reported at the first of them, however many follow, and
\* nothing is read after it; a file that ends after the connections or
\* after the MONITOR statement counts no EXPECTED_EOF.
C24_ExpectedEof ==
    /\ [](\A t \in Trailers :
            (pc = "exit" /\ Trailed(t)) =>
                /\ error_count = 1
                /\ source.errs = <<[symbol |-> t[1], err |-> "EXPECTED_EOF"]>>
                /\ symbol = t[1]
                /\ ~result)
    /\ []((pc = "exit" /\ source.file \in {ValidFile, ValidNoMonitor}) =>
            (error_count = 0 /\ source.errs = <<>> /\ result))
    /\ [](Shown("EXPECTED_EOF") <= 1)
    /\ [][(pc = "check_eof" /\ symbol.type # EOF) =>
            /\ error_count' = error_count + 1
            /\ last_err' = "EXPECTED_EOF"
            /\ symbol' = symbol]_vars
    /\ [][last_err = "EXPECTED_EOF" =>
            (error_count' = error_count /\ symbol' = symbol)]_vars

\* two symbols follow the MONITOR statement: one error, at the first
C24_Witness ==
    /\ pc = "exit"
    /\ Trailed(<<Nm(S1), Kw(MONITOR_ID)>>)
    /\ error_count = 1
    /\ ErrKinds = <<"EXPECTED_EOF">>
    /\ ErrSymbols = <<Nm(S1)>>

\* C26: MONITOR with no device name after it counts 2 errors (EXPECTED_SYMBOL
\* and DEVICE_ABSENT, both at the ';') when ';' comes next and 3 (the same
\* two and UNEXPECTED_EOF, all at EOF) when the file ends there, after a
\* valid file as after empty sections; DEVICES: CONNECTIONS: alone counts 0
\* and the DEVICES keyword alone counts 2.
C26_EmptyMonitorList ==
    pc = "exit" =>
        /\ \A f \in {ValidNoMonitor, EmptySections} :
            /\ source.file = f \o <<Kw(MONITOR_ID), Punct(SEMICOLON)>> =>
                /\ error_count = 2
                /\ ErrKinds = <<"EXPECTED_SYMBOL", "DEVICE_ABSENT">>
                /\ ErrSymbols = <<Punct(SEMICOLON), Punct(SEMICOLON)>>
            /\ source.file = f \o <<Kw(MONITOR_ID)>> =>
                /\ error_count = 3
                /\ ErrKinds = <<"EXPECTED_SYMBOL", "DEVICE_ABSENT",
                                "UNEXPECTED_EOF">>
                /\ ErrSymbols = <<EndOfFile, EndOfFile, EndOfFile>>
        /\ source.file = EmptySections => (error_count = 0 /\ result)
        /\ source.file = <<Kw(DEVICES_ID)>> =>
            /\ error_count = 2
            /\ ErrKinds = <<"EXPECTED_SYMBOL", "UNEXPECTED_EOF">>

C26_Witness ==
    /\ pc = "exit"
    /\ source.file = ValidNoMonitor \o <<Kw(MONITOR_ID), Punct(SEMICOLON)>>
    /\ error_count = 2
    /\ last_err = "DEVICE_ABSENT"
    /\ devices[N1] # NoDevice

\* C28: on every finite list of symbols parse_network comes to its end with
\* a boolean; once the scanner has returned EOF it is not called again and
\* the symbol stays EOF, so the scanner is called at most once more than
\* the list is long; the one call of _get_next_symbol that can be made at
\* EOF (after a connection whose ';' was not found) counts UNEXPECTED_EOF.
C28_Termination ==
    /\ <>(pc = "exit" /\ result \in BOOLEAN)
    /\ [][(symbol.type = EOF) =>
            (symbol' = symbol /\ source'.count = source.count)]_vars
    /\ [](source.count <= Len(source.file) + 1)
    /\ [][(pc = "connection_end_next" /\ symbol.type = EOF) =>
            /\ error_count' = error_count + 1
            /\ last_err' = "UNEXPECTED_EOF"]_vars
    /\ [][(error_count' > error_count /\ last_err' = "UNEXPECTED_EOF") =>
            symbol.type = EOF]_vars

\* the last connection of the file lacks its ';': _rule_connection tried to
\* advance at EOF, and the scanner was called once per symbol and once more
C28_Witness ==
    /\ pc = "exit"
    /\ source.file = SubSeq(ValidNoMonitor, 1, Len(ValidNoMonitor) - 1)
    /\ ErrKinds = <<"EXPECTED_SYMBOL", "UNEXPECTED_EOF">>
    /\ symbol = EndOfFile
    /\ source.count = Len(source.file) + 1

\* the command line is one that main rejects
InvalidCommandLine(args) ==
    \/ getopt(args).error
    \/ getopt(args).options = <<>> /\ Len(getopt(args).arguments) # 1

\* C25: the exit status is not 0 when the command line is invalid (an
\* unknown option, or no option and not exactly one path) or the file has
\* the wrong extension or cannot be opened, and it is 0 on a clean exit.
C25_ExitStatus ==
    cli.pc = "exited" =>
        /\ InvalidCommandLine(cli.arg_list) => cli.status # 0
        /\ cli.cause \in {"extension", "open"} => cli.status # 0
        /\ cli.cause \in {"help", "end"} => cli.status = 0

\* get_symbol has returned
Returned == scan_pc = "idle" /\ scan_local # NoScanLocal

\* C27: every call of get_symbol either reads on in the file or returns EOF.
C27_Progress ==
    Returned => (Position > scan_local.called \/ scan_local.symbol.type = EOF)

\* C29: between operations, once a button has had its effect, time_steps is
\* the number of network steps executed and of samples recorded since the
\* last cold startup and monitor reset (since the window opened, if there
\* was none).
C29_CycleCounter ==
    (gui_pc = "idle" /\ (history.cold \/ history.executed > 0)) =>
        /\ time_steps = history.executed
        /\ time_steps = history.recorded

\* C30: a network step is executed only after a cold startup and monitor
\* reset, and only on a network that check_network accepts.
C30_ColdStartFirst ==
    [][history'.executed > history.executed =>
          (history.cold /\ check_network(devices, connections))]_vars
====
